---- MODULE Spec2Model ----
(***************************************************************************)
(* Writing3D: the feature / validation / serialization core.               *)
(*                                                                         *)
(*   pycave/features.py  CaveFeature  (validated attribute container)      *)
(*   pycave/actions.py   CaveAction dispatch, ObjectAction and the other   *)
(*                       action kinds                                      *)
(*   pyw3d/sounds.py     W3DSound                                          *)
(*   pyw3d/project.py    W3DProject                                        *)
(*                                                                         *)
(* Python values are tagged records.  A number is an int (field n) or a    *)
(* float (field h, the value counted in halves: h = 5 is 2.5).  A str is   *)
(* a sequence of symbols: a digit, "-", "." or one opaque word.            *)
(***************************************************************************)
EXTENDS Integers, Sequences, FiniteSets, TLC

(* ------------------------------ bounds -------------------------------- *)

MaxSeeds ==
  1

\* the number of groups in a project whose groups are sorted
MaxGroups ==
  3

\* the number of calls of generate_blender_audio_from_file
MaxCalls ==
  3

MaxStored ==
  1

(* --------------------------- Python values ---------------------------- *)

\* the value of F at x: names an intermediate result
At(x, F(_)) ==
  F(x)

VInt(n) ==
  [t |-> "int", n |-> n]

VFloat(h) ==
  [t |-> "float", h |-> h]

VBool(b) ==
  [t |-> "bool", b |-> b]

VStr(s) ==
  [t |-> "str", s |-> s]

VTuple(e) ==
  [t |-> "tuple", e |-> e]

VList(e) ==
  [t |-> "list", e |-> e]

VDict(d) ==
  [t |-> "dict", d |-> d]

VFeature(cls, id) ==
  [t |-> "feature", cls |-> cls, id |-> id]

PyNone ==
  [t |-> "none"]

IsNumber(v) ==
  v.t \in {"int", "float"}

\* the value of a number, counted in halves
Halves(v) ==
  IF v.t = "int" THEN 2 * v.n ELSE v.h

\* Python's == on the values of the model: numbers compare by value across
\* int, float and bool; everything else compares structurally.
AsNumber(v) ==
  IF v.t = "bool" THEN VInt(IF v.b THEN 1 ELSE 0) ELSE v

PyEq(v, w) ==
  IF AsNumber(v).t \in {"int", "float"} /\ AsNumber(w).t \in {"int", "float"}
  THEN Halves(AsNumber(v)) = Halves(AsNumber(w))
  ELSE v = w

\* truth value of a Python object
Truthy(v) ==
  CASE v.t = "bool" -> v.b
    [] v.t = "int" -> v.n # 0
    [] v.t = "float" -> v.h # 0
    [] v.t = "none" -> FALSE
    [] v.t = "str" -> v.s # <<>>
    [] v.t \in {"tuple", "list"} -> v.e # <<>>
    [] v.t = "dict" -> DOMAIN v.d # {}
    [] OTHER -> TRUE

(* ---------------------- str(), int(), float() ------------------------- *)

DigitChar(d) ==
  CASE d = 0 -> "0" [] d = 1 -> "1" [] d = 2 -> "2" [] d = 3 -> "3"
    [] d = 4 -> "4" [] d = 5 -> "5" [] d = 6 -> "6" [] d = 7 -> "7"
    [] d = 8 -> "8" [] d = 9 -> "9"

Digits ==
  {"0", "1", "2", "3", "4", "5", "6", "7", "8", "9"}

DigitVal(c) ==
  CHOOSE d \in 0..9 : DigitChar(d) = c

RECURSIVE NatDigits(_)
NatDigits(n) ==
  IF n < 10 THEN <<DigitChar(n)>>
  ELSE NatDigits(n \div 10) \o <<DigitChar(n % 10)>>

Abs(n) ==
  IF n < 0 THEN -n ELSE n

\* str(n) of an int
IntText(n) ==
  (IF n < 0 THEN <<"-">> ELSE <<>>) \o NatDigits(Abs(n))

\* str(x) of a float counted in halves: 5 -> "2.5", 2 -> "1.0", -1 -> "-0.5"
FloatText(h) ==
  (IF h < 0 THEN <<"-">> ELSE <<>>) \o NatDigits(Abs(h) \div 2)
    \o <<".">> \o (IF Abs(h) % 2 = 1 THEN <<"5">> ELSE <<"0">>)

\* str(v)
PyStr(v) ==
  CASE v.t = "int" -> VStr(IntText(v.n))
    [] v.t = "float" -> VStr(FloatText(v.h))
    [] v.t = "bool" -> VStr(IF v.b THEN <<"True">> ELSE <<"False">>)
    [] v.t = "str" -> v
    [] OTHER -> VStr(<<"<object>">>)

AllDigits(s) ==
  s # <<>> /\ \A i \in 1..Len(s) : s[i] \in Digits

RECURSIVE DigitsNat(_)
DigitsNat(s) ==
  IF s = <<>> THEN 0
  ELSE 10 * DigitsNat(SubSeq(s, 1, Len(s) - 1)) + DigitVal(s[Len(s)])

Unsigned(s) ==
  IF s # <<>> /\ s[1] = "-" THEN Tail(s) ELSE s

Sign(s) ==
  IF s # <<>> /\ s[1] = "-" THEN -1 ELSE 1

\* int(v): a number truncates, a str must be an optionally signed run of
\* digits, anything else raises
PyInt(v) ==
  CASE v.t = "int" -> [ok |-> TRUE, v |-> v]
    [] v.t = "bool" -> [ok |-> TRUE, v |-> VInt(IF v.b THEN 1 ELSE 0)]
    [] v.t = "float" ->
         [ok |-> TRUE,
          v |-> VInt(IF v.h < 0 THEN -(Abs(v.h) \div 2) ELSE v.h \div 2)]
    [] v.t = "str" ->
         IF AllDigits(Unsigned(v.s))
         THEN [ok |-> TRUE, v |-> VInt(Sign(v.s) * DigitsNat(Unsigned(v.s)))]
         ELSE [ok |-> FALSE, err |-> "ValueError"]
    [] OTHER -> [ok |-> FALSE, err |-> "TypeError"]

DotAt(s) ==
  IF \E i \in 1..Len(s) : s[i] = "." THEN CHOOSE i \in 1..Len(s) : s[i] = "."
  ELSE 0

\* float(v): a str is digits, optionally followed by "." and a fraction of
\* "0" or "5" (the fractions the model's floats can carry)
PyFloat(v) ==
  CASE v.t = "int" -> [ok |-> TRUE, v |-> VFloat(2 * v.n)]
    [] v.t = "bool" -> [ok |-> TRUE, v |-> VFloat(IF v.b THEN 2 ELSE 0)]
    [] v.t = "float" -> [ok |-> TRUE, v |-> v]
    [] v.t = "str" ->
         LET u == Unsigned(v.s)
             d == DotAt(u)
             whole == IF d = 0 THEN u ELSE SubSeq(u, 1, d - 1)
             frac == IF d = 0 THEN <<"0">> ELSE SubSeq(u, d + 1, Len(u))
         IN IF AllDigits(whole) /\ frac \in {<<"0">>, <<"5">>}
            THEN [ok |-> TRUE,
                  v |-> VFloat(Sign(v.s) * (2 * DigitsNat(whole)
                                 + (IF frac = <<"5">> THEN 1 ELSE 0)))]
            ELSE [ok |-> FALSE, err |-> "ValueError"]
    [] OTHER -> [ok |-> FALSE, err |-> "TypeError"]

\* xml_tools.bool2text / text2bool: booleans travel as "True" / "False"
bool2text(v) ==
  VStr(IF Truthy(v) THEN <<"True">> ELSE <<"False">>)

text2bool(v) ==
  IF v.t = "str" /\ v.s \in {<<"True">>, <<"False">>}
  THEN [ok |-> TRUE, v |-> VBool(v.s = <<"True">>)]
  ELSE [ok |-> FALSE, err |-> "BadCaveXML"]

(* ----------------------------- validators ----------------------------- *)
\* validators.py is not among the sources; the variants follow the
\* specification's validator set.  Bounds are counted in halves.

NoBound ==
  [has |-> FALSE, halves |-> 0]

Bound(halves) ==
  [has |-> TRUE, halves |-> halves]

AlwaysValid ==
  [v |-> "AlwaysValid"]

IsNumeric(min_value, max_value) ==
  [v |-> "IsNumeric", min |-> min_value, max |-> max_value]

IsInteger(min_value, max_value) ==
  [v |-> "IsInteger", min |-> min_value, max |-> max_value]

IsNumericIterable(required_length) ==
  [v |-> "IsNumericIterable", len |-> required_length]

OptionListValidator(options) ==
  [v |-> "OptionValidator", options |-> options]

IsBoolean ==
  [v |-> "IsBoolean"]

ValidPyString ==
  [v |-> "ValidPyString"]

ValidFile ==
  [v |-> "ValidFile"]

FeatureValidator(cls) ==
  [v |-> "FeatureValidator", cls |-> cls]

ListValidator(elem, required_length) ==
  [v |-> "ListValidator", elem |-> elem, len |-> required_length]

DictValidator(key, value) ==
  [v |-> "DictValidator", key |-> key, value |-> value]

InRange(val, v) ==
  /\ (val.min.has => Halves(v) >= val.min.halves)
  /\ (val.max.has => Halves(v) <= val.max.halves)

\* a validator that does not contain another validator
ValidateLeaf(val, v) ==
  CASE val.v = "AlwaysValid" -> TRUE
    [] val.v = "IsNumeric" -> IsNumber(v) /\ InRange(val, v)
    [] val.v = "IsInteger" -> v.t = "int" /\ InRange(val, v)
    [] val.v = "IsNumericIterable" ->
         /\ v.t \in {"tuple", "list"}
         /\ \A i \in 1..Len(v.e) : IsNumber(v.e[i])
         /\ (val.len = 0 \/ Len(v.e) = val.len)
    [] val.v = "OptionValidator" -> v \in val.options
    [] val.v = "IsBoolean" -> v.t = "bool"
    [] val.v \in {"ValidPyString", "ValidFile"} -> v.t = "str"
    [] val.v = "FeatureValidator" -> v.t = "feature" /\ v.cls = val.cls
    [] OTHER -> FALSE

Validate(val, v) ==
  CASE val.v = "ListValidator" ->
         /\ v.t \in {"tuple", "list"}
         /\ \A i \in 1..Len(v.e) : ValidateLeaf(val.elem, v.e[i])
         /\ (val.len = 0 \/ Len(v.e) = val.len)
    [] val.v = "DictValidator" ->
         /\ v.t = "dict"
         /\ \A k \in DOMAIN v.d :
              ValidateLeaf(val.key, VStr(<<k>>)) /\ ValidateLeaf(val.value, v.d[k])
    [] OTHER -> ValidateLeaf(val, v)

(* ------------------------ the concrete kinds -------------------------- *)

ActionKinds ==
  {"ObjectAction", "GroupAction", "TimelineAction", "SoundAction",
   "EventTriggerAction", "MoveCaveAction", "CaveResetAction"}

Kinds ==
  ActionKinds \cup {"W3DSound", "W3DProject"}

Word(w) ==
  VStr(<<w>>)

Options(words) ==
  {Word(w) : w \in words}

SoundChanges ==
  {"Play Sound", "Stop Sound"}

LinkChanges ==
  {"Enable", "Disable", "Activate", "Activate if enabled"}

WallNames ==
  {"Center", "FrontWall", "LeftWall", "RightWall", "FloorWall"}

ObjectAction_validators ==
  [object_name |-> AlwaysValid,
   duration |-> IsNumeric(Bound(0), NoBound),
   visible |-> AlwaysValid,
   placement |-> AlwaysValid,
   move_relative |-> AlwaysValid,
   color |-> IsNumericIterable(3),
   scale |-> IsNumeric(Bound(0), NoBound),
   sound_change |-> OptionListValidator(Options(SoundChanges)),
   link_change |-> OptionListValidator(Options(LinkChanges))]

GroupAction_validators ==
  [group_name |-> AlwaysValid,
   duration |-> IsNumeric(Bound(0), NoBound),
   visible |-> AlwaysValid,
   placement |-> AlwaysValid,
   move_relative |-> AlwaysValid,
   color |-> IsNumericIterable(3),
   scale |-> IsNumeric(Bound(0), NoBound),
   sound_change |-> OptionListValidator(Options(SoundChanges)),
   link_change |-> OptionListValidator(Options(LinkChanges))]

TimelineAction_validators ==
  [timeline_name |-> AlwaysValid,
   change |-> OptionListValidator(
     Options({"Start", "Stop", "Continue", "Start if not started"}))]

SoundAction_validators ==
  [sound_name |-> AlwaysValid,
   change |-> OptionListValidator(Options({"Start", "Stop"}))]

EventTriggerAction_validators ==
  [trigger_name |-> AlwaysValid,
   enable |-> AlwaysValid]

MoveCaveAction_validators ==
  [relative |-> AlwaysValid,
   duration |-> IsNumeric(Bound(0), NoBound),
   placement |-> AlwaysValid]

W3DSound_validators ==
  [name |-> ValidPyString,
   filename |-> ValidFile,
   autostart |-> IsBoolean,
   movement_mode |-> OptionListValidator(Options({"Positional", "Fixed"})),
   repetitions |-> IsNumeric(NoBound, NoBound),
   frequency_scale |-> IsNumeric(Bound(1), Bound(4)),
   volume_scale |-> IsNumeric(Bound(0), Bound(4)),
   pan |-> IsNumeric(Bound(-2), Bound(2))]

W3DProject_validators ==
  [objects |-> ListValidator(FeatureValidator("W3DObject"), 0),
   groups |-> ListValidator(FeatureValidator("W3DGroup"), 0),
   particle_actions |-> ListValidator(FeatureValidator("W3DPAction"), 0),
   timelines |-> ListValidator(FeatureValidator("W3DTimeline"), 0),
   sounds |-> ListValidator(FeatureValidator("W3DSound"), 0),
   trigger_events |-> ListValidator(FeatureValidator("W3DTrigger"), 0),
   camera_placement |-> FeatureValidator("W3DPlacement"),
   desktop_camera_placement |-> FeatureValidator("W3DPlacement"),
   far_clip |-> IsNumeric(Bound(0), NoBound),
   background |-> ListValidator(IsInteger(Bound(0), Bound(510)), 3),
   allow_movement |-> IsBoolean,
   allow_rotation |-> IsBoolean,
   debug |-> IsBoolean,
   profile |-> IsBoolean,
   wall_placements |-> DictValidator(OptionListValidator(Options(WallNames)),
                                     FeatureValidator("W3DPlacement"))]

\* the class attribute argument_validators of each kind; CaveResetAction
\* declares none and inherits the empty table of CaveFeature
argument_validators(K) ==
  CASE K = "ObjectAction" -> ObjectAction_validators
    [] K = "GroupAction" -> GroupAction_validators
    [] K = "TimelineAction" -> TimelineAction_validators
    [] K = "SoundAction" -> SoundAction_validators
    [] K = "EventTriggerAction" -> EventTriggerAction_validators
    [] K = "MoveCaveAction" -> MoveCaveAction_validators
    [] K = "W3DSound" -> W3DSound_validators
    [] K = "W3DProject" -> W3DProject_validators
    [] OTHER -> <<>>

\* the class attribute default_arguments of each kind
default_arguments(K) ==
  CASE K = "ObjectAction" -> [duration |-> VInt(1)]
    [] K = "GroupAction" -> [duration |-> VInt(1), choose_random |-> VBool(FALSE)]
    [] K = "SoundAction" -> [change |-> Word("Start")]
    [] K = "MoveCaveAction" -> [duration |-> VInt(0)]
    [] K = "W3DSound" ->
         [autostart |-> VBool(FALSE),
          movement_mode |-> Word("Positional"),
          repetitions |-> VInt(0),
          frequency_scale |-> VInt(1),
          volume_scale |-> VInt(1),
          pan |-> VInt(0)]
    [] K = "W3DProject" ->
         [far_clip |-> VInt(100),
          background |-> VTuple(<<VInt(0), VInt(0), VInt(0)>>),
          allow_movement |-> VBool(TRUE),
          allow_rotation |-> VBool(TRUE),
          debug |-> VBool(FALSE),
          profile |-> VBool(FALSE)]
    [] OTHER -> <<>>

(* ------------------------- CaveFeature (base) ------------------------- *)
\* An instance is its dict storage: a function from the stored attribute
\* names to their values.  pyw3d's W3DFeature is the same base class under
\* its later name.  Every operation returns the storage it leaves behind.

NoAttrs ==
  [k \in {} |-> PyNone]

Store(attrs, key, value) ==
  [k \in DOMAIN attrs \cup {key} |-> IF k = key THEN value ELSE attrs[k]]

\* __setitem__ without the validator check
CaveFeature_setitem_unvalidated(K, attrs, key, value) ==
  IF key \notin DOMAIN argument_validators(K)
  THEN [status |-> "InvalidArgument", why |-> "option", attrs |-> attrs]
  ELSE [status |-> "ok", why |-> "", attrs |-> Store(attrs, key, value)]

\* __setitem__ that writes before it validates
CaveFeature_setitem_writefirst(K, attrs, key, value) ==
  IF key \notin DOMAIN argument_validators(K)
  THEN [status |-> "InvalidArgument", why |-> "option", attrs |-> attrs]
  ELSE IF ~Validate(argument_validators(K)[key], value)
  THEN [status |-> "InvalidArgument", why |-> "value",
        attrs |-> Store(attrs, key, value)]
  ELSE [status |-> "ok", why |-> "", attrs |-> Store(attrs, key, value)]

\* CaveFeature.__setitem__
CaveFeature_setitem(K, attrs, key, value) ==
  IF key \notin DOMAIN argument_validators(K)
  THEN [status |-> "InvalidArgument", why |-> "option", attrs |-> attrs]
  ELSE IF ~Validate(argument_validators(K)[key], value)
  THEN [status |-> "InvalidArgument", why |-> "value", attrs |-> attrs]
  ELSE [status |-> "ok", why |-> "", attrs |-> Store(attrs, key, value)]

\* __missing__ in the manner of dict.setdefault: the default is stored
CaveFeature_missing_storing(K, attrs, key) ==
  IF key \in DOMAIN default_arguments(K)
  THEN [status |-> "ok", ret |-> default_arguments(K)[key],
        attrs |-> Store(attrs, key, default_arguments(K)[key])]
  ELSE [status |-> "KeyError", ret |-> PyNone, attrs |-> attrs]

\* CaveFeature.__missing__
CaveFeature_missing(K, attrs, key) ==
  IF key \in DOMAIN default_arguments(K)
  THEN [status |-> "ok", ret |-> default_arguments(K)[key], attrs |-> attrs]
  ELSE [status |-> "KeyError", ret |-> PyNone, attrs |-> attrs]

\* self[key]: dict.__getitem__, which falls back on __missing__
CaveFeature_getitem(K, attrs, key) ==
  IF key \in DOMAIN attrs
  THEN [status |-> "ok", ret |-> attrs[key], attrs |-> attrs]
  ELSE CaveFeature_missing(K, attrs, key)

\* is_default as "currently equal to the default value"
is_default_by_value(K, attrs, key) ==
  /\ key \in DOMAIN default_arguments(K)
  /\ (key \in DOMAIN attrs => PyEq(attrs[key], default_arguments(K)[key]))

\* CaveFeature.is_default
is_default(K, attrs, key) ==
  key \notin DOMAIN attrs /\ key \in DOMAIN default_arguments(K)

(* ------------------- W3DProject: the debug attribute ------------------ *)
\* A process is the storage of the instance with the process-wide state
\* its methods touch: the level of the "pyw3d" logger and the working
\* directory.

Proc(attrs, log, cwd) ==
  [attrs |-> attrs, log |-> log, cwd |-> cwd]

\* W3DProject.__setitem__
W3DProject_setitem(st, key, value) ==
  At(CaveFeature_setitem("W3DProject", st.attrs, key, value),
     LAMBDA r :
       [status |-> r.status, why |-> r.why,
        st |-> Proc(r.attrs,
                    IF key # "debug" THEN st.log
                    ELSE IF Truthy(value) THEN "DEBUG" ELSE "WARNING",
                    st.cwd)])

\* self[key] = value on an instance of kind K (method resolution)
setitem(K, st, key, value) ==
  IF K = "W3DProject" THEN W3DProject_setitem(st, key, value)
  ELSE At(CaveFeature_setitem(K, st.attrs, key, value),
          LAMBDA r : [status |-> r.status, why |-> r.why,
                      st |-> Proc(r.attrs, st.log, st.cwd)])

\* CaveFeature.update: the pairs are written in order; the first rejected
\* pair raises and the pairs before it stay written
RECURSIVE CaveFeature_update(_, _, _)
CaveFeature_update(K, st, pairs) ==
  IF pairs = <<>> THEN [status |-> "ok", why |-> "", st |-> st]
  ELSE At(setitem(K, st, pairs[1][1], pairs[1][2]),
          LAMBDA r : IF r.status # "ok" THEN r
                     ELSE CaveFeature_update(K, r.st, Tail(pairs)))

\* CaveFeature.__init__ (the presentation order ui_order is not modelled)
CaveFeature_init(K, st, seeds) ==
  CaveFeature_update(K, Proc(NoAttrs, st.log, st.cwd), seeds)

Placement(cls, id) ==
  VFeature(cls, id)

DefaultWalls ==
  VDict([w \in WallNames |-> Placement("W3DPlacement", w)])

ProjectFill ==
  << <<"objects", VList(<<>>)>>, <<"groups", VList(<<>>)>>,
     <<"particle_actions", VList(<<>>)>>, <<"timelines", VList(<<>>)>>,
     <<"sounds", VList(<<>>)>>, <<"trigger_events", VList(<<>>)>>,
     <<"camera_placement", Placement("W3DPlacement", "origin")>>,
     <<"desktop_camera_placement", Placement("W3DPlacement", "desktop")>>,
     <<"wall_placements", DefaultWalls>> >>

\* the tail of W3DProject.__init__: each attribute not seeded is filled in
RECURSIVE FillMissing(_, _)
FillMissing(st, fill) ==
  IF fill = <<>> THEN [status |-> "ok", why |-> "", st |-> st]
  ELSE IF fill[1][1] \in DOMAIN st.attrs THEN FillMissing(st, Tail(fill))
  ELSE At(W3DProject_setitem(st, fill[1][1], fill[1][2]),
          LAMBDA r : IF r.status # "ok" THEN r
                     ELSE FillMissing(r.st, Tail(fill)))

\* W3DProject.__init__
W3DProject_init(st, seeds, call_directory) ==
  At(CaveFeature_init("W3DProject", st, seeds),
     LAMBDA r : IF r.status # "ok" THEN r
                ELSE FillMissing(Proc(r.st.attrs, r.st.log, call_directory),
                                 ProjectFill))

\* K(*seeds)
Construct(K, st, seeds, call_directory) ==
  IF K = "W3DProject" THEN W3DProject_init(st, seeds, call_directory)
  ELSE CaveFeature_init(K, st, seeds)

(* --------------------------- document nodes --------------------------- *)
\* xml.etree.ElementTree elements as values: tag, attrib, children, text.
\* ElementTree stores whatever object it is given as an attribute value or
\* as text; nothing is converted to str until the tree is written out.

NoDoc ==
  [tag |-> "#none"]

Elem(tag, attrib, children, text) ==
  [tag |-> tag, attrib |-> attrib, children |-> children, text |-> text]

Empty(tag) ==
  Elem(tag, NoAttrs, <<>>, PyNone)

\* ET.SubElement(parent, ...): the parent with the new child appended
AppendChild(parent, child) ==
  [parent EXCEPT !.children = Append(@, child)]

\* node.findall(tag)
findall(node, tag) ==
  LET Named(c) == c.tag = tag
  IN SelectSeq(node.children, Named)

\* node.find(tag): the first child of that name, or None
find(node, tag) ==
  IF findall(node, tag) = <<>> THEN NoDoc ELSE findall(node, tag)[1]

\* the interpreters the package can run under differ where toXML hands
\* SubElement a set for attrib
Runtimes ==
  {"python2", "python3"}

\* CavePlacement.toXML / W3DPlacement.toXML: a Placement child carrying
\* the placement; a value that is no feature has no toXML method
Placement_toXML(value, parent) ==
  IF value.t = "feature"
  THEN [status |-> "ok",
        parent |-> AppendChild(parent,
                     Elem("Placement", NoAttrs, <<>>, Word(value.id)))]
  ELSE [status |-> "AttributeError", parent |-> parent]

\* CavePlacement.fromXML / W3DPlacement.fromXML; None has no find method
Placement_fromXML(cls, node) ==
  IF node = NoDoc THEN [ok |-> FALSE, err |-> "AttributeError"]
  ELSE [ok |-> TRUE, v |-> Placement(cls, node.text.s[1])]

(* ------------------------ ObjectAction.toXML -------------------------- *)

Part(status, nodes) ==
  [status |-> status, nodes |-> nodes]

Nothing ==
  Part("ok", <<>>)

VisiblePart(a) ==
  IF "visible" \notin DOMAIN a THEN Nothing
  ELSE Part("ok", <<Elem("Visible", NoAttrs, <<>>, bool2text(a["visible"]))>>)

\* a movement child named without looking at move_relative
MovePart_always_Movement(a) ==
  IF "placement" \notin DOMAIN a THEN Nothing
  ELSE At(Placement_toXML(a["placement"], Empty("Movement")),
          LAMBDA p : Part(p.status, <<p.parent>>))

\* a movement child that reads an unset move_relative as false
MovePart_relative_defaulted(a) ==
  IF "placement" \notin DOMAIN a THEN Nothing
  ELSE At(Placement_toXML(a["placement"],
            Empty(IF "move_relative" \in DOMAIN a /\ Truthy(a["move_relative"])
                  THEN "MoveRel" ELSE "Movement")),
          LAMBDA p : Part(p.status, <<p.parent>>))

MovePart(a) ==
  IF "placement" \notin DOMAIN a THEN Nothing
  ELSE At(CaveFeature_getitem("ObjectAction", a, "move_relative"),
          LAMBDA rel :
            IF rel.status # "ok" THEN Part(rel.status, <<>>)
            ELSE At(Placement_toXML(a["placement"],
                      Empty(IF Truthy(rel.ret) THEN "MoveRel" ELSE "Movement")),
                    LAMBDA p : Part(p.status, <<p.parent>>)))

ColorPart(a) ==
  IF "color" \notin DOMAIN a THEN Nothing
  ELSE LET c == a["color"].e
       IN Part("ok", <<Elem("Color", NoAttrs, <<>>,
                 VStr(PyStr(c[1]).s \o <<",">> \o PyStr(c[2]).s
                      \o <<",">> \o PyStr(c[3]).s))>>)

ScalePart(a) ==
  IF "scale" \notin DOMAIN a THEN Nothing
  ELSE Part("ok", <<Elem("Scale", NoAttrs, <<>>, PyStr(a["scale"]))>>)

\* attrib={"action", value} is a set: python3 refuses it, python2 keeps the
\* set as the element's attrib (its members are the names below)
SoundPart(a, runtime) ==
  IF "sound_change" \notin DOMAIN a THEN Nothing
  ELSE IF runtime = "python3" THEN Part("TypeError", <<>>)
  ELSE Part("ok", <<Elem("Sound",
              [m \in {"action", a["sound_change"].s[1]} |-> [t |-> "member"]],
              <<>>, PyNone)>>)

LinkMarker(value) ==
  CASE value = Word("Enable") -> <<Empty("link_on")>>
    [] value = Word("Disable") -> <<Empty("link_off")>>
    [] value = Word("Activate") -> <<Empty("activate")>>
    [] value = Word("Activate if enabled") -> <<Empty("activate_if_on")>>
    [] OTHER -> <<>>

LinkPart(a) ==
  IF "link_change" \notin DOMAIN a THEN Nothing
  ELSE Part("ok", <<Elem("LinkChange", NoAttrs, LinkMarker(a["link_change"]),
                         PyNone)>>)

\* the statements run in order; the first that raises ends the call, and
\* what was appended before it stays in the tree
RECURSIVE Assemble(_)
Assemble(parts) ==
  IF parts = <<>> THEN Nothing
  ELSE IF parts[1].status # "ok" THEN parts[1]
  ELSE At(Assemble(Tail(parts)),
          LAMBDA rest : Part(rest.status, parts[1].nodes \o rest.nodes))

Written(status, parent, node) ==
  [status |-> status, parent |-> parent, node |-> node]

\* the ObjectChange node around a Transition node with the given children
ObjectChange(name, duration, nodes) ==
  Elem("ObjectChange", [name |-> name],
       <<Elem("Transition", [duration |-> duration], nodes, PyNone)>>, PyNone)

\* ObjectAction.toXML
ObjectAction_toXML(a, parent_root, runtime) ==
  IF CaveFeature_getitem("ObjectAction", a, "object_name").status # "ok"
  THEN Written(CaveFeature_getitem("ObjectAction", a, "object_name").status,
               parent_root, NoDoc)
  ELSE At(ObjectChange(
            CaveFeature_getitem("ObjectAction", a, "object_name").ret,
            CaveFeature_getitem("ObjectAction", a, "duration").ret,
            Assemble(<<VisiblePart(a), MovePart(a), ColorPart(a),
                       ScalePart(a), SoundPart(a, runtime), LinkPart(a)>>).nodes),
          LAMBDA change_root :
            At(Assemble(<<VisiblePart(a), MovePart(a), ColorPart(a),
                          ScalePart(a), SoundPart(a, runtime), LinkPart(a)>>),
               LAMBDA body :
                 Written(body.status, AppendChild(parent_root, change_root),
                         IF body.status = "ok" THEN change_root ELSE NoDoc)))

\* CaveFeature.toXML, which the other action kinds call
CaveFeature_toXML(a, parent_root) ==
  Written("NotImplementedError", parent_root, NoDoc)

(* ------------------------- W3DSound.toXML ----------------------------- *)

SoundAttrib(a) ==
  LET base == [name |-> PyStr(a["name"]), filename |-> PyStr(a["filename"])]
  IN IF is_default("W3DSound", a, "autostart") THEN base
     ELSE [k \in {"name", "filename", "autostart"} |->
             IF k = "autostart" THEN bool2text(a["autostart"]) ELSE base[k]]

\* a Repeat marker chosen without looking at the sign
RepeatMarkers_unsigned(rep) ==
  IF Halves(rep) = 0 THEN <<Empty("NoRepeat")>>
  ELSE <<Elem("RepeatNum", NoAttrs, <<>>, PyStr(rep))>>

\* the Repeat marker for a number of repetitions counted in halves
RepeatMarkers(rep) ==
  (IF Halves(rep) = 0 THEN <<Empty("NoRepeat")>> ELSE <<>>)
  \o (IF Halves(rep) < 0 THEN <<Empty("RepeatForever")>> ELSE <<>>)
  \o (IF Halves(rep) > 0
      THEN <<Elem("RepeatNum", NoAttrs, <<>>, PyStr(rep))>> ELSE <<>>)

SettingsNames ==
  [frequency_scale |-> "freq", volume_scale |-> "volume", pan |-> "pan"]

\* Settings that carry all three attributes, stored or defaulted
SoundSettings_all(a) ==
  [x \in {SettingsNames[k] : k \in DOMAIN SettingsNames} |->
     PyStr(CaveFeature_getitem("W3DSound", a,
             CHOOSE k \in DOMAIN SettingsNames : SettingsNames[k] = x).ret)]

SoundSettings(a) ==
  LET keys == {k \in DOMAIN SettingsNames : ~is_default("W3DSound", a, k)}
  IN [x \in {SettingsNames[k] : k \in keys} |->
        PyStr(a[CHOOSE k \in keys : SettingsNames[k] = x])]

\* W3DSound.toXML
W3DSound_toXML(a, all_sounds_root) ==
  IF "name" \notin DOMAIN a \/ "filename" \notin DOMAIN a
  THEN Written("ConsistencyError", all_sounds_root, NoDoc)
  ELSE At(Elem("Sound", SoundAttrib(a),
               <<Elem("Mode", NoAttrs,
                      <<Empty(CaveFeature_getitem("W3DSound", a,
                                                  "movement_mode").ret.s[1])>>,
                      PyNone),
                 Elem("Repeat", NoAttrs,
                      RepeatMarkers(CaveFeature_getitem("W3DSound", a,
                                                        "repetitions").ret),
                      PyNone),
                 Elem("Settings", SoundSettings(a), <<>>, PyNone)>>,
               PyNone),
          LAMBDA sound_root :
            Written("ok", AppendChild(all_sounds_root, sound_root), sound_root))

\* x.toXML(parent_root) on an instance of kind K
toXML(K, a, parent_root, runtime) ==
  CASE K = "ObjectAction" -> ObjectAction_toXML(a, parent_root, runtime)
    [] K = "W3DSound" -> W3DSound_toXML(a, parent_root)
    [] OTHER -> CaveFeature_toXML(a, parent_root)

(* ----------------------------- fromXML -------------------------------- *)
\* What a parse returns: a new instance of some kind, or the exception it
\* raised (detail names what the message names).

Parsed(K, a) ==
  [status |-> "ok", kind |-> K, attrs |-> a, detail |-> ""]

Raised(err, detail) ==
  [status |-> err, kind |-> "", attrs |-> NoAttrs, detail |-> detail]

Ok(v) ==
  [ok |-> TRUE, v |-> v]

\* new[key] = <converted value>: the conversion or the write may raise
Put(K, ps, key, conv) ==
  IF ps.status # "ok" THEN ps
  ELSE IF ~conv.ok THEN Raised(conv.err, key)
  ELSE At(CaveFeature_setitem(K, ps.attrs, key, conv.v),
          LAMBDA r : IF r.status = "ok" THEN Parsed(K, r.attrs)
                     ELSE Raised(r.status, key))

\* new_action["move_relative"] = new_action.get("move_relative", False),
\* then the Placement child of the movement node
ReadPlacement(ps, node) ==
  IF ps.status # "ok" THEN ps
  ELSE IF find(node, "Placement") = NoDoc
  THEN Raised("BadCaveXML", "Placement")
  ELSE Put("ObjectAction",
           Put("ObjectAction", ps, "move_relative",
               Ok(IF "move_relative" \in DOMAIN ps.attrs
                  THEN ps.attrs["move_relative"] ELSE VBool(FALSE))),
           "placement",
           Placement_fromXML("CavePlacement", find(node, "Placement")))

\* the Movement / MoveRel part of ObjectAction.fromXML
ReadMovement(ps, trans_root) ==
  IF ps.status # "ok" THEN ps
  ELSE IF find(trans_root, "MoveRel") # NoDoc
  THEN ReadPlacement(Put("ObjectAction", ps, "move_relative", Ok(VBool(TRUE))),
                     find(trans_root, "MoveRel"))
  ELSE IF find(trans_root, "Movement") # NoDoc
  THEN ReadPlacement(ps, find(trans_root, "Movement"))
  ELSE ps

\* the Visible part of ObjectAction.fromXML
ReadVisible(ps, trans_root) ==
  IF ps.status # "ok" \/ find(trans_root, "Visible") = NoDoc THEN ps
  ELSE Put("ObjectAction", ps, "visible",
           text2bool(find(trans_root, "Visible").text))

\* the Transition part of ObjectAction.fromXML; None has no attrib
ReadTransition(ps, trans_root) ==
  IF ps.status # "ok" THEN ps
  ELSE IF trans_root = NoDoc THEN Raised("AttributeError", "Transition")
  ELSE ReadMovement(
         ReadVisible(
           IF "duration" \in DOMAIN trans_root.attrib
           THEN Put("ObjectAction", ps, "duration",
                    PyFloat(trans_root.attrib["duration"]))
           ELSE ps,
           trans_root),
         trans_root)

\* the body of ObjectAction.fromXML, action_root being a node
ObjectAction_fromXML_body(action_root) ==
  IF "name" \notin DOMAIN action_root.attrib
  THEN Raised("BadCaveXML", "name")
  ELSE ReadTransition(
         Put("ObjectAction", Parsed("ObjectAction", NoAttrs), "object_name",
             Ok(action_root.attrib["name"])),
         find(action_root, "Transition"))

\* CaveFeature.fromXML
CaveFeature_fromXML(xml_root) ==
  Raised("NotImplementedError", "fromXML")

\* text.strip() then int(): None has no strip method
StripInt(text) ==
  IF text.t # "str" THEN [ok |-> FALSE, err |-> "AttributeError"]
  ELSE PyInt(text)

ModeOrder ==
  <<"Positional", "Fixed">>

\* the first valid mode that the Mode node has a child for
FoundMode(movement_node) ==
  LET hits == SelectSeq(ModeOrder, LAMBDA m : find(movement_node, m) # NoDoc)
  IN IF hits = <<>> THEN [ok |-> FALSE, err |-> "BadW3DXML"]
     ELSE Ok(Word(hits[1]))

ReadRepeat(repeat_node) ==
  IF find(repeat_node, "NoRepeat") # NoDoc THEN Ok(VInt(0))
  ELSE IF find(repeat_node, "RepeatForever") # NoDoc THEN Ok(VInt(-1))
  ELSE IF find(repeat_node, "RepeatNum") = NoDoc
  THEN [ok |-> FALSE, err |-> "BadW3DXML"]
  ELSE LET n == StripInt(find(repeat_node, "RepeatNum").text)
       IN IF ~n.ok /\ n.err = "AttributeError"
          THEN [ok |-> FALSE, err |-> "BadW3DXML"] ELSE n

RECURSIVE ReadSettings(_, _, _)
ReadSettings(ps, settings_node, keys) ==
  IF keys = <<>> THEN ps
  ELSE ReadSettings(
         IF SettingsNames[keys[1]] \in DOMAIN settings_node.attrib
         THEN Put("W3DSound", ps, keys[1],
                  PyFloat(settings_node.attrib[SettingsNames[keys[1]]]))
         ELSE ps,
         settings_node, Tail(keys))

\* the Settings part of W3DSound.fromXML
ReadSettingsNode(ps, sound_root) ==
  IF ps.status # "ok" THEN ps
  ELSE IF find(sound_root, "Settings") = NoDoc
  THEN Raised("BadW3DXML", "Settings")
  ELSE ReadSettings(ps, find(sound_root, "Settings"),
                    <<"frequency_scale", "volume_scale", "pan">>)

\* the Repeat part of W3DSound.fromXML
ReadRepeatNode(ps, sound_root) ==
  IF ps.status # "ok" THEN ps
  ELSE IF find(sound_root, "Repeat") = NoDoc THEN Raised("BadW3DXML", "Repeat")
  ELSE ReadSettingsNode(
         Put("W3DSound", ps, "repetitions",
             ReadRepeat(find(sound_root, "Repeat"))),
         sound_root)

\* the Mode part of W3DSound.fromXML
ReadModeNode(ps, sound_root) ==
  IF ps.status # "ok" THEN ps
  ELSE IF find(sound_root, "Mode") = NoDoc THEN Raised("BadW3DXML", "Mode")
  ELSE ReadRepeatNode(
         Put("W3DSound", ps, "movement_mode",
             FoundMode(find(sound_root, "Mode"))),
         sound_root)

\* the filename and autostart attributes
ReadFilename(ps, sound_root) ==
  IF ps.status # "ok" THEN ps
  ELSE IF "filename" \notin DOMAIN sound_root.attrib
  THEN Raised("BadW3DXML", "filename")
  ELSE ReadModeNode(
         IF "autostart" \in DOMAIN sound_root.attrib
         THEN Put("W3DSound",
                  Put("W3DSound", ps, "filename",
                      Ok(sound_root.attrib["filename"])),
                  "autostart", text2bool(sound_root.attrib["autostart"]))
         ELSE Put("W3DSound", ps, "filename", Ok(sound_root.attrib["filename"])),
         sound_root)

\* the body of W3DSound.fromXML
W3DSound_fromXML_body(sound_root) ==
  IF "name" \notin DOMAIN sound_root.attrib THEN Raised("BadW3DXML", "name")
  ELSE ReadFilename(
         Put("W3DSound", Parsed("W3DSound", NoAttrs), "name",
             Ok(sound_root.attrib["name"])),
         sound_root)

\* the number of parameters each fromXML declares under @classmethod
fromXML_parameters(K) ==
  IF K \in ActionKinds \cup {"CaveAction"} THEN 1 ELSE 2

\* the body of K.fromXML for the kinds that parse a node themselves
LeafBody(K, node) ==
  CASE K = "ObjectAction" -> ObjectAction_fromXML_body(node)
    [] K = "W3DSound" -> W3DSound_fromXML_body(node)
    [] OTHER -> CaveFeature_fromXML(node)

\* K.fromXML(node) as a caller writes it: a classmethod receives the class
\* before the node, so a fromXML declared with one parameter cannot be
\* called with a node at all
LeafCall(K, node) ==
  IF fromXML_parameters(K) # 2 THEN Raised("TypeError", "fromXML")
  ELSE LeafBody(K, node)

DispatchTable ==
  [ObjectChange |-> "ObjectAction", GroupRef |-> "GroupAction",
   TimerChange |-> "TimelineAction", SoundRef |-> "SoundAction",
   Event |-> "EventTriggerAction", MoveCave |-> "MoveCaveAction",
   Restart |-> "CaveResetAction"]

\* the body of CaveAction.fromXML
CaveAction_fromXML_body(action_root) ==
  IF action_root.tag \in DOMAIN DispatchTable
  THEN LeafCall(DispatchTable[action_root.tag], action_root)
  ELSE Raised("BadCaveXML", action_root.tag)

Body(K, node) ==
  IF K = "CaveAction" THEN CaveAction_fromXML_body(node)
  ELSE LeafBody(K, node)

\* the two ways to reach a fromXML: the call K.fromXML(node), and the plain
\* function under the classmethod applied to the node
CallForms ==
  {"method", "function"}

fromXML(form, K, node) ==
  IF form = "method" /\ fromXML_parameters(K) # 2
  THEN Raised("TypeError", "fromXML")
  ELSE Body(K, node)

(* ----------------------- W3DProject.fromXML --------------------------- *)

\* what a project parse leaves: the outcome and the process state
ProjParse(status, detail, st) ==
  [status |-> status, kind |-> IF status = "ok" THEN "W3DProject" ELSE "",
   attrs |-> st.attrs, detail |-> detail, log |-> st.log, cwd |-> st.cwd]

\* new_project[key] = <converted value>, through W3DProject.__setitem__
PPut(pp, key, conv) ==
  IF pp.status # "ok" THEN pp
  ELSE IF ~conv.ok THEN ProjParse(conv.err, key, pp)
  ELSE At(W3DProject_setitem(pp, key, conv.v),
          LAMBDA r : ProjParse(r.status, IF r.status = "ok" THEN "" ELSE key,
                               r.st))

\* W3DObject.fromXML and the like: the entity a child node describes
Entity_fromXML(cls, node) ==
  VFeature(cls, node.text.s[1])

RECURSIVE Entities(_, _)
Entities(cls, nodes) ==
  IF nodes = <<>> THEN <<>>
  ELSE <<Entity_fromXML(cls, nodes[1])>> \o Entities(cls, Tail(nodes))

\* container element, child element, attribute, entity class
EntityLists ==
  << <<"ObjectRoot", "Object", "objects", "W3DObject">>,
     <<"GroupRoot", "Group", "groups", "W3DGroup">>,
     <<"TimelineRoot", "Timeline", "timelines", "W3DTimeline">>,
     <<"SoundRoot", "Sound", "sounds", "W3DSound">>,
     <<"ParticleActionRoot", "ParticleActionList", "particle_actions",
       "W3DPAction">>,
     <<"EventRoot", "EventTrigger", "trigger_events", "W3DTrigger">> >>

\* new_project[key].append(...) for every matching child: the stored list
\* is changed in place
RECURSIVE ReadEntities(_, _, _)
ReadEntities(a, project_root, lists) ==
  IF lists = <<>> THEN a
  ELSE LET l == lists[1]
           root == find(project_root, l[1])
           more == IF root = NoDoc THEN <<>>
                   ELSE Entities(l[4], findall(root, l[2]))
       IN ReadEntities([a EXCEPT ![l[3]] = VList(a[l[3]].e \o more)],
                       project_root, Tail(lists))

\* xml_tools.text2tuple(text, evaluator=int): the comma-separated fields
RECURSIVE SplitCommas(_)
SplitCommas(s) ==
  IF \A i \in 1..Len(s) : s[i] # "," THEN <<s>>
  ELSE LET c == CHOOSE i \in 1..Len(s) :
                  s[i] = "," /\ \A j \in 1..(i - 1) : s[j] # ","
       IN <<SubSeq(s, 1, c - 1)>> \o SplitCommas(SubSeq(s, c + 1, Len(s)))

Strip(s) ==
  SelectSeq(s, LAMBDA c : c # " ")

text2tuple(text) ==
  LET fields == SplitCommas(text.s)
      ints == [i \in 1..Len(fields) |-> PyInt(VStr(Strip(fields[i])))]
  IN IF \E i \in 1..Len(fields) : ~ints[i].ok
     THEN [ok |-> FALSE, err |-> "ValueError"]
     ELSE Ok(VTuple([i \in 1..Len(fields) |-> ints[i].v]))

\* xml_tools.attrib2bool(node, name, default=False)
attrib2bool(node, name) ==
  IF name \in DOMAIN node.attrib THEN text2bool(node.attrib[name])
  ELSE Ok(VBool(FALSE))

\* The statements of the Global part, in the order the code runs them: an
\* assignment new_project[key] = <converted value>, or a raise.
Assign(key, conv) ==
  [op |-> "assign", key |-> key, conv |-> conv]

Raise(err, detail) ==
  [op |-> "raise", key |-> detail, conv |-> [ok |-> FALSE, err |-> err]]

\* one camera node: far-clip if given, then the Placement child, which is
\* looked up but never tested for None
ReadCamera(global_root, tag, key) ==
  IF find(global_root, tag) = NoDoc THEN <<Raise("BadW3DXML", tag)>>
  ELSE (IF "far-clip" \in DOMAIN find(global_root, tag).attrib
        THEN <<Assign("far_clip",
                      PyFloat(find(global_root, tag).attrib["far-clip"]))>>
        ELSE <<>>)
       \o <<Assign(key, Placement_fromXML("W3DPlacement",
                          find(find(global_root, tag), "Placement")))>>

\* new_project["wall_placements"][name] = ...: the stored dict is changed
\* in place, under whatever name the node carries
RECURSIVE ReadWalls(_, _)
ReadWalls(pp, placements) ==
  IF pp.status # "ok" \/ placements = <<>> THEN pp
  ELSE IF "name" \notin DOMAIN placements[1].attrib
  THEN ProjParse("BadW3DXML", "name", pp)
  ELSE LET wall_name == placements[1].attrib["name"].s[1]
           walls == pp.attrs["wall_placements"].d
           place == Placement_fromXML("W3DPlacement", placements[1]).v
           walls1 == [w \in DOMAIN walls \cup {wall_name} |->
                        IF w = wall_name THEN place ELSE walls[w]]
       IN ReadWalls(
            ProjParse("ok", "",
              [pp EXCEPT !.attrs = [@ EXCEPT !["wall_placements"] = VDict(walls1)]]),
            Tail(placements))

ReadBackground(global_root) ==
  IF find(global_root, "Background") = NoDoc
  THEN <<Raise("BadW3DXML", "Background")>>
  ELSE IF "color" \in DOMAIN find(global_root, "Background").attrib
  THEN <<Assign("background",
                text2tuple(find(global_root, "Background").attrib["color"]))>>
  ELSE <<>>

ReadWand(global_root) ==
  IF find(global_root, "WandNavigation") = NoDoc
  THEN <<Raise("BadW3DXML", "WandNavigation")>>
  ELSE <<Assign("allow_rotation",
                attrib2bool(find(global_root, "WandNavigation"),
                            "allow-rotation")),
         Assign("allow_movement",
                attrib2bool(find(global_root, "WandNavigation"),
                            "allow-movement"))>>

\* the Debug and Profile nodes
ReadFlag(global_root, tag, key) ==
  IF find(global_root, tag) = NoDoc THEN <<>>
  ELSE <<Assign(key, text2bool(find(global_root, tag).text))>>

\* the Global part of W3DProject.fromXML: CaveCameraPos is read into
\* camera_placement and CameraPos into desktop_camera_placement
ReadGlobal(global_root) ==
  IF global_root = NoDoc THEN <<Raise("BadW3DXML", "Global")>>
  ELSE ReadCamera(global_root, "CaveCameraPos", "camera_placement")
       \o ReadCamera(global_root, "CameraPos", "desktop_camera_placement")
       \o ReadBackground(global_root)
       \o ReadWand(global_root)
       \o ReadFlag(global_root, "Debug", "debug")
       \o ReadFlag(global_root, "Profile", "profile")

\* the statements run in order through W3DProject.__setitem__; the first
\* that raises ends the call
RECURSIVE RunStatements(_, _)
RunStatements(pp, statements) ==
  IF pp.status # "ok" \/ statements = <<>> THEN pp
  ELSE RunStatements(
         IF statements[1].op = "raise"
         THEN ProjParse(statements[1].conv.err, statements[1].key, pp)
         ELSE PPut(pp, statements[1].key, statements[1].conv),
         Tail(statements))

\* the PlacementRoot part; None has no findall
ReadPlacementRoot(pp, project_root) ==
  IF pp.status # "ok" THEN pp
  ELSE IF find(project_root, "PlacementRoot") = NoDoc
  THEN ProjParse("AttributeError", "PlacementRoot", pp)
  ELSE ReadWalls(pp, findall(find(project_root, "PlacementRoot"), "Placement"))

\* the new project with the entity lists read in
WithEntities(made, project_root) ==
  ProjParse("ok", "",
    [made EXCEPT !.attrs = ReadEntities(@, project_root, EntityLists)])

\* W3DProject.fromXML(project_root, call_directory); st is the process
\* state at the call, call_directory "none" stands for None
W3DProject_fromXML(st, project_root, call_directory) ==
  ReadPlacementRoot(
    RunStatements(
      WithEntities(
        W3DProject_init(st, <<>>,
          IF call_directory = "none" THEN "argv0" ELSE call_directory).st,
        project_root),
      ReadGlobal(find(project_root, "Global"))),
    project_root)

(* ------------------------- W3DProject.toXML --------------------------- *)

\* W3DObject.toXML and the like: the child element an entity writes
Entity_toXML(tag, value) ==
  Elem(tag, NoAttrs, <<>>, Word(value.id))

RECURSIVE EntityNodes(_, _)
EntityNodes(tag, values) ==
  IF values = <<>> THEN <<>>
  ELSE <<Entity_toXML(tag, values[1])>> \o EntityNodes(tag, Tail(values))

\* an entity list written in the opposite order
EntityRoot_reversed(a, l) ==
  Elem(l[1], NoAttrs,
       EntityNodes(l[2], [i \in 1..Len(a[l[3]].e) |->
                            a[l[3]].e[Len(a[l[3]].e) + 1 - i]]),
       PyNone)

\* one container element: every entity of the list writes itself into it,
\* in the order of the list
EntityRoot(a, l) ==
  Elem(l[1], NoAttrs, EntityNodes(l[2], a[l[3]].e), PyNone)

RECURSIVE EntityRoots(_, _)
EntityRoots(a, lists) ==
  IF lists = <<>> THEN <<>>
  ELSE <<EntityRoot(a, lists[1])>> \o EntityRoots(a, Tail(lists))

\* self[key] of a project
ProjectItem(a, key) ==
  CaveFeature_getitem("W3DProject", a, key).ret

\* a camera node: far-clip and the placement written into it
Camera_toXML(a, tag, key) ==
  Placement_toXML(a[key],
    Elem(tag, [k \in {"far-clip"} |-> PyStr(ProjectItem(a, "far_clip"))],
         <<>>, PyNone)).parent

\* "{}, {}, {}".format(*self["background"])
BackgroundText(c) ==
  VStr(PyStr(c[1]).s \o <<",", " ">> \o PyStr(c[2]).s \o <<",", " ">>
       \o PyStr(c[3]).s)

\* the Global node: CameraPos carries camera_placement and CaveCameraPos
\* carries desktop_camera_placement; every setting is read with self[...]
\* and written whether or not it is stored
Global_toXML(a) ==
  Elem("Global", NoAttrs,
       <<Camera_toXML(a, "CameraPos", "camera_placement"),
         Camera_toXML(a, "CaveCameraPos", "desktop_camera_placement"),
         Elem("Background",
              [color |-> BackgroundText(ProjectItem(a, "background").e)],
              <<>>, PyNone),
         Elem("WandNavigation",
              [k \in {"allow-rotation", "allow-movement"} |->
                 bool2text(ProjectItem(a, IF k = "allow-rotation"
                                          THEN "allow_rotation"
                                          ELSE "allow_movement"))],
              <<>>, PyNone),
         Elem("Debug", NoAttrs, <<>>, bool2text(ProjectItem(a, "debug"))),
         Elem("Profile", NoAttrs, <<>>, bool2text(ProjectItem(a, "profile")))>>,
       PyNone)

\* the order in which the stored dict of walls is walked: the order the
\* constructor fills it in, then the names fromXML added
WallOrder ==
  <<"Center", "FrontWall", "LeftWall", "RightWall", "FloorWall", "Ceiling">>

\* the PlacementRoot node: each wall's placement with the wall's name
Walls_toXML(walls) ==
  Elem("PlacementRoot", NoAttrs,
       [i \in 1..Len(SelectSeq(WallOrder, LAMBDA w : w \in DOMAIN walls)) |->
          [Placement_toXML(
             walls[SelectSeq(WallOrder, LAMBDA w : w \in DOMAIN walls)[i]],
             Empty("Root")).parent.children[1]
           EXCEPT !.attrib =
             [n \in {"name"} |->
                Word(SelectSeq(WallOrder, LAMBDA w : w \in DOMAIN walls)[i])]]],
       PyNone)

\* W3DProject.toXML: the Story tree of the project
W3DProject_toXML(a) ==
  Written("ok", NoDoc,
    Elem("Story", [version |-> Word("8")],
         EntityRoots(a, EntityLists)
           \o <<Global_toXML(a), Walls_toXML(a["wall_placements"].d)>>,
         PyNone))

(* ----------------------- W3DProject.sort_groups ------------------------ *)

\* W3DGroup: a group with its name and the names of the groups it lists
\* in its "groups" attribute
Group(name, groups) ==
  [t |-> "feature", cls |-> "W3DGroup", id |-> name, groups |-> groups]

\* list.insert(i, x), positions counted from 0
Insert(list, i, x) ==
  SubSeq(list, 1, i) \o <<x>> \o SubSeq(list, i + 1, Len(list))

\* the positions i with group["name"] in new_groups[i]["groups"]
Containers(new_groups, group) ==
  {i \in 0..(Len(new_groups) - 1) : group.id \in new_groups[i + 1].groups}

Lowest(S) ==
  CHOOSE x \in S : \A y \in S : x <= y

\* a pass that puts the group in the place of its first container
Placed_overwriting(new_groups, group) ==
  IF Containers(new_groups, group) = {} THEN Append(new_groups, group)
  ELSE [new_groups EXCEPT ![Lowest(Containers(new_groups, group)) + 1] = group]

\* the body of the while loop for the group popped: inserted before the
\* first group that lists it, appended when no group does
Placed(new_groups, group) ==
  IF Containers(new_groups, group) = {} THEN Append(new_groups, group)
  ELSE Insert(new_groups, Lowest(Containers(new_groups, group)), group)

\* the while loop: self["groups"].pop() takes the last group
RECURSIVE SortLoop(_, _)
SortLoop(groups, new_groups) ==
  IF groups = <<>> THEN new_groups
  ELSE SortLoop(SubSeq(groups, 1, Len(groups) - 1),
                Placed(new_groups, groups[Len(groups)]))

\* W3DProject.sort_groups: the stored list is emptied in place, then the
\* new list is stored through __setitem__
W3DProject_sort_groups(st) ==
  W3DProject_setitem(
    [st EXCEPT !.attrs = [@ EXCEPT !["groups"] = VList(<<>>)]],
    "groups", VList(SortLoop(st.attrs["groups"].e, <<>>)))

(* ------------------ generate_blender_audio_from_file ------------------ *)
\* The cache is the attribute _sounds of the function object: absent until
\* the first call, then a dict from filename to sound.  The host keeps the
\* sounds it opened in bpy.data.sounds and counts in "opened" how often
\* each file was opened.

Returned(audio, ret) ==
  [audio |-> audio, ret |-> ret]

Count(opened, filename) ==
  IF filename \in DOMAIN opened THEN opened[filename] ELSE 0

\* BPY_OPS_CALL("sound.open", None, {'filepath': filename}): the host adds
\* a sound for the file to its collection
sound_open(audio, filename) ==
  [audio EXCEPT
     !.sounds = Append(@, [file |-> filename, serial |-> Len(@) + 1]),
     !.opened = [f \in DOMAIN @ \cup {filename} |->
                   Count(@, f) + (IF f = filename THEN 1 ELSE 0)]]

\* _sounds[filename] = bpy.data.sounds[0]; which sound the host lists
\* first is the host's choice, "first" is its position in order of opening
StoreFirst(audio, filename, first) ==
  [audio EXCEPT
     !.cache.map = [f \in DOMAIN @ \cup {filename} |->
                      IF f = filename
                      THEN audio.sounds[IF first \in DOMAIN audio.sounds
                                        THEN first ELSE Len(audio.sounds)]
                      ELSE @[f]]]

\* a lookup that opens the file on every call
generate_blender_audio_uncached(audio, filename, first) ==
  Returned(StoreFirst(sound_open([audio EXCEPT !.cache.exists = TRUE],
                                 filename), filename, first),
           StoreFirst(sound_open([audio EXCEPT !.cache.exists = TRUE],
                                 filename), filename, first).cache.map[filename])

\* generate_blender_audio_from_file(filename): AttributeError creates the
\* dict, KeyError opens the file and stores the sound, and either way the
\* function calls itself again
RECURSIVE generate_blender_audio_from_file(_, _, _)
generate_blender_audio_from_file(audio, filename, first) ==
  IF ~audio.cache.exists
  THEN generate_blender_audio_from_file(
         [audio EXCEPT !.cache.exists = TRUE], filename, first)
  ELSE IF filename \in DOMAIN audio.cache.map
  THEN Returned(audio, audio.cache.map[filename])
  ELSE generate_blender_audio_from_file(
         StoreFirst(sound_open(audio, filename), filename, first),
         filename, first)

(* ------------------------------- state -------------------------------- *)

VARIABLES
  kind,      \* the concrete kind of the instance under study
  attrs,     \* its storage
  logLevel,  \* level of the process-wide "pyw3d" logger
  cwd,       \* working directory of the process
  res,       \* what the last call did: operation, arguments, outcome
  doc,       \* the document node last written or handed to a parser
  parsed,    \* what the last parse returned
  audio      \* the audio-handle cache and the host's record of opened sounds

vars ==
  <<kind, attrs, logLevel, cwd, res, doc, parsed, audio>>

\* before the first call: the function has no _sounds attribute, the host
\* holds no sound, nothing was opened
NoAudio ==
  [cache |-> [exists |-> FALSE, map |-> NoAttrs], sounds |-> <<>>,
   opened |-> NoAttrs, calls |-> 0]

NoParse ==
  [status |-> "none"]

Result(op, key, val, status, ret) ==
  [op |-> op, key |-> key, val |-> val, status |-> status, ret |-> ret]

(* ------------------------------ inputs -------------------------------- *)

Triple ==
  VTuple(<<VInt(1), VInt(2), VInt(3)>>)

\* the values a caller passes to an instance of kind K: for each validator
\* of K at least one value it accepts and one it rejects
InputValues(K) ==
  CASE K \in {"ObjectAction", "GroupAction"} ->
         {VInt(1), VInt(-1), Triple, Word("Play Sound"), Word("Enable")}
    [] K \in {"TimelineAction", "SoundAction"} ->
         {VInt(1), Word("Start"), Word("Cube")}
    [] K = "EventTriggerAction" -> {VInt(1), VBool(TRUE)}
    [] K = "MoveCaveAction" ->
         {VInt(0), VInt(-1), Placement("CavePlacement", "p1")}
    [] K = "W3DSound" ->
         {Word("Cube"), Word("Fixed"), VBool(FALSE), VInt(0), VInt(1),
          VInt(-1), VFloat(5)}
    [] K = "W3DProject" ->
         {VBool(TRUE), VBool(FALSE), VInt(1), VList(<<>>),
          VDict([w \in {"Ceiling"} |-> Placement("W3DPlacement", "p1")])}
    [] OTHER -> {VInt(1)}

\* the names a caller uses: the schema, the defaults and one foreign name
InputKeys(K) ==
  DOMAIN argument_validators(K) \cup DOMAIN default_arguments(K) \cup {"bogus"}

\* the pairs handed to the constructor and to update
SeedKeys(K) ==
  InputKeys(K) \cap {"duration", "change", "enable", "repetitions", "debug",
                     "bogus"}

SeedPairs(K) ==
  {<<k, v>> : k \in SeedKeys(K), v \in InputValues(K) \cap {VInt(1), VInt(-1), VBool(TRUE), Word("Start")}}

SeqsUpTo(S, n) ==
  UNION {[1..m -> S] : m \in 0..n}

Directories ==
  {"argv0", "docs"}

StoreLimit(K) ==
  MaxStored + (IF K = "W3DProject" THEN Len(ProjectFill) ELSE 0)

Fits(K, a) ==
  Cardinality(DOMAIN a) <= StoreLimit(K)

(* ------------------------- feature life cycle ------------------------- *)

\* x = K(*seeds): the states after a construction that did not raise
Init ==
  /\ kind \in Kinds
  /\ \E seeds \in SeqsUpTo(SeedPairs(kind), MaxSeeds), dir \in Directories :
       \E r \in {Construct(kind, Proc(NoAttrs, "NOTSET", "start"), seeds, dir)} :
          /\ r.status = "ok"
          /\ attrs = r.st.attrs
          /\ logLevel = r.st.log
          /\ cwd = (IF kind = "W3DProject" THEN r.st.cwd ELSE "start")
  /\ res = Result("init", "", PyNone, "ok", PyNone)
  /\ doc = NoDoc
  /\ parsed = NoParse
  /\ audio = NoAudio

\* x[key] = value
Set(key, value) ==
  \E r \in {setitem(kind, Proc(attrs, logLevel, cwd), key, value)} :
     /\ Fits(kind, r.st.attrs)
     /\ attrs' = r.st.attrs
     /\ logLevel' = r.st.log
     /\ res' = Result("set", key, value, r.status, PyNone)
     /\ UNCHANGED <<audio, kind, cwd, doc, parsed>>

\* x[key]
Get(key) ==
  \E r \in {CaveFeature_getitem(kind, attrs, key)} :
     /\ attrs' = r.attrs
     /\ res' = Result("get", key, PyNone, r.status, r.ret)
     /\ UNCHANGED <<audio, kind, logLevel, cwd, doc, parsed>>

\* x.is_default(key)
IsDefault(key) ==
  /\ res' = Result("is_default", key, PyNone, "ok",
                   VBool(is_default(kind, attrs, key)))
  /\ UNCHANGED <<audio, kind, attrs, logLevel, cwd, doc, parsed>>

\* x.update(pairs)
Update(pairs) ==
  \E r \in {CaveFeature_update(kind, Proc(attrs, logLevel, cwd), pairs)} :
     /\ Fits(kind, r.st.attrs)
     /\ attrs' = r.st.attrs
     /\ logLevel' = r.st.log
     /\ res' = Result("update", "", VInt(Len(pairs)), r.status, PyNone)
     /\ UNCHANGED <<audio, kind, cwd, doc, parsed>>

Next ==
  \/ \E key \in InputKeys(kind), value \in InputValues(kind) : Set(key, value)
  \/ \E key \in InputKeys(kind) : Get(key)
  \/ \E key \in InputKeys(kind) : IsDefault(key)
  \/ \E pairs \in SeqsUpTo(SeedPairs(kind), MaxSeeds) : Update(pairs)

Spec ==
  Init /\ [][Next]_vars

(* ----------------------- writing and parsing ------------------------- *)
\* The second specification: an instance is built, written with toXML and
\* the node read back; classes parse documents that were made by hand.

XMLKinds ==
  Kinds \cup {"CaveAction"}

\* the values the instances to be written are built from
XMLValues(K, key) ==
  CASE K = "ObjectAction" ->
         (CASE key = "object_name" -> {Word("Cube")}
            [] key = "duration" -> {VInt(1), VFloat(5)}
            [] key = "visible" -> {VBool(TRUE), VBool(FALSE)}
            [] key = "placement" -> {Placement("CavePlacement", "p1"), VInt(1)}
            [] key = "move_relative" -> {VBool(TRUE), VBool(FALSE)}
            [] key = "color" -> {Triple}
            [] key = "scale" -> {VInt(2)}
            [] key = "sound_change" -> Options(SoundChanges)
            [] key = "link_change" -> Options(LinkChanges)
            [] OTHER -> {})
    [] K = "W3DSound" ->
         (CASE key = "name" -> {Word("snd")}
            [] key = "filename" -> {Word("a.wav")}
            [] key = "autostart" -> {VBool(TRUE), VBool(FALSE)}
            [] key = "movement_mode" -> {Word("Positional"), Word("Fixed")}
            [] key = "repetitions" ->
                 {VInt(0), VInt(-1), VInt(-3), VInt(3), VFloat(5)}
            [] key = "frequency_scale" -> {VFloat(3)}
            [] key = "volume_scale" -> {VInt(1)}
            [] key = "pan" -> {VInt(-1), VInt(0)}
            [] OTHER -> {})
    [] K = "GroupAction" ->
         (CASE key = "group_name" -> {Word("Cube")} [] OTHER -> {})
    [] OTHER -> {}

Absent ==
  [t |-> "absent"]

OrAbsent(K, key) ==
  XMLValues(K, key) \cup {Absent}

\* every choice of keyword arguments among the values above
Keywords(K) ==
  CASE K = "ObjectAction" ->
         [object_name : OrAbsent(K, "object_name"),
          duration : OrAbsent(K, "duration"),
          visible : OrAbsent(K, "visible"),
          placement : OrAbsent(K, "placement"),
          move_relative : OrAbsent(K, "move_relative"),
          color : OrAbsent(K, "color"),
          scale : OrAbsent(K, "scale"),
          sound_change : OrAbsent(K, "sound_change"),
          link_change : OrAbsent(K, "link_change")]
    [] K = "W3DSound" ->
         [name : OrAbsent(K, "name"),
          filename : OrAbsent(K, "filename"),
          autostart : OrAbsent(K, "autostart"),
          movement_mode : OrAbsent(K, "movement_mode"),
          repetitions : OrAbsent(K, "repetitions"),
          frequency_scale : OrAbsent(K, "frequency_scale"),
          volume_scale : OrAbsent(K, "volume_scale"),
          pan : OrAbsent(K, "pan")]
    [] K = "GroupAction" -> [group_name : OrAbsent(K, "group_name")]
    [] OTHER -> {NoAttrs}

Given(kw) ==
  [k \in {x \in DOMAIN kw : kw[x] # Absent} |-> kw[k]]

\* the entity lists a project is constructed with
EntityList(cls, ids) ==
  VList([i \in 1..Len(ids) |-> VFeature(cls, ids[i])])

ProjectSeeds ==
  {objects \o sounds :
     objects \in {<<>>} \cup
       {<< <<"objects", EntityList("W3DObject", ids)>> >> :
          ids \in {<<"a", "b">>, <<"b", "a">>}},
     sounds \in {<<>>} \cup
       {<< <<"sounds", EntityList("W3DSound", ids)>> >> :
          ids \in {<<"s">>, <<"s", "a">>}}}

\* K(**kwargs): the instances whose every keyword passed __setitem__
Instances(K) ==
  IF K = "W3DProject"
  THEN {W3DProject_init(Proc(NoAttrs, "NOTSET", "start"), seeds, "argv0").st.attrs :
          seeds \in ProjectSeeds}
  ELSE {Given(kw) : kw \in
          {w \in Keywords(K) :
             \A k \in DOMAIN Given(w) :
               CaveFeature_setitem(K, NoAttrs, k, w[k]).status = "ok"}}

Cube ==
  [name |-> Word("Cube")]

PlacementNode(id) ==
  Elem("Placement", NoAttrs, <<>>, Word(id))

\* nodes handed to CaveAction.fromXML: one for each tag of the dispatch
\* table and two tags outside it
DispatchDocs ==
  {Elem(tag, Cube, <<Elem("Transition", NoAttrs, <<>>, PyNone)>>, PyNone) :
     tag \in DOMAIN DispatchTable \cup {"Object", "Bogus"}}

MovementDocs ==
  {<<>>,
   <<Elem("MoveRel", NoAttrs, <<PlacementNode("p1")>>, PyNone)>>,
   <<Elem("Movement", NoAttrs, <<PlacementNode("p1")>>, PyNone)>>,
   <<Empty("Movement")>>,
   <<Empty("MoveRel")>>}

DurationTexts ==
  {<<"1">>, <<"2", ".", "5">>, <<"-", "1">>, <<"soon">>}

TransitionDocs ==
  {Elem("Transition", at,
        (IF vis THEN <<Elem("Visible", NoAttrs, <<>>, Word("True"))>> ELSE <<>>)
          \o mv, PyNone) :
     at \in {NoAttrs} \cup {[duration |-> VStr(d)] : d \in DurationTexts},
     vis \in BOOLEAN, mv \in MovementDocs}

\* ObjectChange nodes made by hand
ObjectChangeDocs ==
  {Elem("ObjectChange", at, ch, PyNone) :
     at \in {NoAttrs, Cube},
     ch \in {<<>>} \cup {<<t>> : t \in TransitionDocs}}

GoodSound ==
  Elem("Sound", [name |-> Word("snd"), filename |-> Word("a.wav")],
       <<Elem("Mode", NoAttrs, <<Empty("Fixed")>>, PyNone),
         Elem("Repeat", NoAttrs,
              <<Elem("RepeatNum", NoAttrs, <<>>, VStr(<<"3">>))>>, PyNone),
         Elem("Settings", [freq |-> VStr(<<"1", ".", "5">>)], <<>>, PyNone)>>,
       PyNone)

Without(node, i) ==
  [node EXCEPT !.children =
     [j \in 1..(Len(@) - 1) |-> IF j < i THEN @[j] ELSE @[j + 1]]]

\* Sound nodes made by hand: a well-formed one and the ones that lack a
\* required part
SoundDocs ==
  {GoodSound,
   [GoodSound EXCEPT !.attrib = [filename |-> Word("a.wav")]],
   [GoodSound EXCEPT !.attrib = [name |-> Word("snd")]],
   Without(GoodSound, 1), Without(GoodSound, 2), Without(GoodSound, 3),
   [GoodSound EXCEPT !.children[1] = Empty("Mode")],
   [GoodSound EXCEPT !.children[2] = Empty("Repeat")],
   [GoodSound EXCEPT !.children[2] =
      Elem("Repeat", NoAttrs, <<Empty("RepeatNum")>>, PyNone)],
   [GoodSound EXCEPT !.children[3] =
      Elem("Settings", [freq |-> VStr(<<"9">>)], <<>>, PyNone)]}

EntityNode(tag, id) ==
  Elem(tag, NoAttrs, <<>>, Word(id))

CameraNode(tag, id, bare) ==
  Elem(tag, [k \in {"far-clip"} |-> VStr(<<"5", "0">>)],
       IF bare THEN <<>> ELSE <<PlacementNode(id)>>, PyNone)

GlobalShapes ==
  {"full", "noCave", "noCamera", "noBackground", "noWand", "barePlacement"}

GlobalNode(shape, debug) ==
  Elem("Global", NoAttrs,
       (IF shape = "noCave" THEN <<>>
        ELSE <<CameraNode("CaveCameraPos", "cave", shape = "barePlacement")>>)
       \o (IF shape = "noCamera" THEN <<>>
           ELSE <<CameraNode("CameraPos", "desk", FALSE)>>)
       \o (IF shape = "noBackground" THEN <<>>
           ELSE <<Elem("Background",
                       [color |-> VStr(<<"1", ",", " ", "2", ",", " ", "3">>)],
                       <<>>, PyNone)>>)
       \o (IF shape = "noWand" THEN <<>>
           ELSE <<Elem("WandNavigation",
                       [k \in {"allow-rotation"} |-> Word("True")],
                       <<>>, PyNone)>>)
       \o (IF debug = "none" THEN <<>>
           ELSE <<Elem("Debug", NoAttrs, <<>>, Word(debug))>>),
       PyNone)

WallNode(name) ==
  Elem("Placement",
       IF name = "" THEN NoAttrs ELSE [n \in {"name"} |-> Word(name)],
       <<>>, Word("w"))

WallShapes ==
  {"noRoot", "empty", "Center", "Ceiling", ""}

\* Story documents made by hand
StoryDoc(filled, shape, debug, walls) ==
  Elem("Story", [version |-> Word("8")],
       (IF filled
        THEN <<Elem("ObjectRoot", NoAttrs,
                    <<EntityNode("Object", "a"), EntityNode("Object", "b")>>,
                    PyNone),
               Elem("SoundRoot", NoAttrs, <<EntityNode("Sound", "s")>>, PyNone)>>
        ELSE <<>>)
       \o (IF shape = "none" THEN <<>> ELSE <<GlobalNode(shape, debug)>>)
       \o (IF walls = "noRoot" THEN <<>>
           ELSE <<Elem("PlacementRoot", NoAttrs,
                       IF walls = "empty" THEN <<>> ELSE <<WallNode(walls)>>,
                       PyNone)>>),
       PyNone)

StoryDocs ==
  {StoryDoc(f, g, d, w) :
     f \in BOOLEAN, g \in GlobalShapes \cup {"none"},
     d \in {"none", "True", "False"}, w \in WallShapes}

\* the documents a kind is parsed from
InputDocs(K) ==
  CASE K = "ObjectAction" -> ObjectChangeDocs
    [] K = "W3DSound" -> SoundDocs
    [] K = "W3DProject" -> StoryDocs
    [] OTHER -> DispatchDocs

\* the two attributes whose consistency toXML relies on
MovementKeys ==
  {"placement", "move_relative"}

\* x[key] = value on an ObjectAction that holds at most its name and the
\* movement attributes, before it is written
SetMovement(key, value) ==
  /\ res.op \in {"init", "set"}
  /\ kind = "ObjectAction"
  /\ DOMAIN attrs \subseteq MovementKeys \cup {"object_name"}
  /\ \E r \in {setitem(kind, Proc(attrs, logLevel, cwd), key, value)} :
        /\ attrs' = r.st.attrs
        /\ logLevel' = r.st.log
        /\ res' = Result("set", key, value, r.status, PyNone)
  /\ UNCHANGED <<audio, kind, cwd, doc, parsed>>

\* x.toXML(parent) on the instance under study, into an empty parent
ToXML(runtime) ==
  /\ res.op \in {"init", "set"}
  /\ kind \in ActionKinds \cup {"W3DSound"}
  /\ \E w \in {toXML(kind, attrs, Empty("Parent"), runtime)} :
        /\ doc' = w.parent
        /\ res' = Result("toXML", runtime, PyNone, w.status, w.node)
  /\ parsed' = NoParse
  /\ UNCHANGED <<audio, kind, attrs, logLevel, cwd>>

\* x.toXML() on the project under study
ProjectToXML ==
  /\ res.op = "init" /\ kind = "W3DProject"
  /\ \E w \in {W3DProject_toXML(attrs)} :
        /\ doc' = w.node
        /\ res' = Result("toXML", "", PyNone, w.status, w.node)
  /\ parsed' = NoParse
  /\ UNCHANGED <<audio, kind, attrs, logLevel, cwd>>

\* K.fromXML(node) with the node that toXML returned
FromXML(form) ==
  /\ res.op = "toXML" /\ res.status = "ok"
  /\ kind # "W3DProject"
  /\ parsed' = fromXML(form, kind, res.ret)
  /\ res' = Result("fromXML", form, PyNone, parsed'.status, res.ret)
  /\ UNCHANGED <<audio, kind, attrs, logLevel, cwd, doc>>

\* CaveAction.fromXML(node) with the node that toXML returned
DispatchWritten(form) ==
  /\ res.op = "toXML" /\ res.status = "ok" /\ kind \in ActionKinds
  /\ parsed' = fromXML(form, "CaveAction", res.ret)
  /\ doc' = res.ret
  /\ res' = Result("dispatch", form, PyNone, parsed'.status, res.ret)
  /\ UNCHANGED <<audio, kind, attrs, logLevel, cwd>>

\* CaveAction.fromXML(node) with a node made by hand
Dispatch(form, node) ==
  /\ res.op = "init" /\ kind = "CaveAction"
  /\ parsed' = fromXML(form, "CaveAction", node)
  /\ doc' = node
  /\ res' = Result("dispatch", form, PyNone, parsed'.status, node)
  /\ UNCHANGED <<audio, kind, attrs, logLevel, cwd>>

\* K.fromXML(node) with a node made by hand
Parse(form, node) ==
  /\ res.op = "init" /\ attrs = NoAttrs
  /\ kind \in {"ObjectAction", "W3DSound"}
  /\ parsed' = fromXML(form, kind, node)
  /\ doc' = node
  /\ res' = Result("parse", form, PyNone, parsed'.status, node)
  /\ UNCHANGED <<audio, kind, attrs, logLevel, cwd>>

\* W3DProject.fromXML(project_root, call_directory); an exception leaves no
\* instance, the process state stays as the call left it
ProjectFromXML(node, call_directory) ==
  /\ res.op = "init" /\ kind = "W3DProject"
  /\ \E pp \in {W3DProject_fromXML(Proc(NoAttrs, logLevel, cwd), node,
                                    call_directory)} :
        /\ parsed' = IF pp.status = "ok" THEN Parsed("W3DProject", pp.attrs)
                     ELSE Raised(pp.status, pp.detail)
        /\ logLevel' = pp.log
        /\ cwd' = pp.cwd
        /\ res' = Result("parse", "method", PyNone, pp.status, node)
  /\ doc' = node
  /\ UNCHANGED <<audio, kind, attrs>>

\* W3DProject.fromXML(project_root) with the node that toXML returned
ProjectRoundTrip(call_directory) ==
  /\ res.op = "toXML" /\ res.status = "ok" /\ kind = "W3DProject"
  /\ \E pp \in {W3DProject_fromXML(Proc(NoAttrs, logLevel, cwd), res.ret,
                                    call_directory)} :
        /\ parsed' = IF pp.status = "ok" THEN Parsed("W3DProject", pp.attrs)
                     ELSE Raised(pp.status, pp.detail)
        /\ logLevel' = pp.log
        /\ cwd' = pp.cwd
        /\ res' = Result("fromXML", "method", PyNone, pp.status, res.ret)
  /\ UNCHANGED <<audio, kind, attrs, doc>>

InitXML ==
  /\ kind \in XMLKinds
  /\ attrs \in Instances(kind)
  /\ logLevel = "NOTSET"
  /\ cwd = IF kind = "W3DProject" THEN "argv0" ELSE "start"
  /\ res = Result("init", "", PyNone, "ok", PyNone)
  /\ doc = NoDoc
  /\ parsed = NoParse
  /\ audio = NoAudio

NextXML ==
  \/ \E key \in MovementKeys : \E value \in XMLValues(kind, key) :
       SetMovement(key, value)
  \/ \E runtime \in Runtimes : ToXML(runtime)
  \/ ProjectToXML
  \/ \E form \in CallForms : FromXML(form)
  \/ \E form \in CallForms : DispatchWritten(form)
  \/ \E form \in CallForms, node \in InputDocs(kind) : Dispatch(form, node)
  \/ \E form \in CallForms, node \in InputDocs(kind) : Parse(form, node)
  \/ \E node \in InputDocs(kind), dir \in {"none", "docs"} :
       ProjectFromXML(node, dir)
  \/ \E dir \in {"none", "docs"} : ProjectRoundTrip(dir)

SpecXML ==
  InitXML /\ [][NextXML]_vars

(* ---------------------- preparing the host scene ---------------------- *)
\* The third specification: what W3DProject._blend does before it creates
\* the scene - the groups of a project are sorted, and the sounds ask the
\* cache for the audio of their files.

GroupNames ==
  SubSeq(<<"a", "b", "c", "d", "e">>, 1, MaxGroups)

Names(seq) ==
  {seq[i] : i \in DOMAIN seq}

\* what a group lists: nothing, one group, or every group
Containments ==
  {{}, Names(GroupNames)} \cup {{n} : n \in Names(GroupNames)}

\* the lists of groups with distinct names, in every order
GroupLists ==
  {[i \in DOMAIN order |-> Group(order[i], lists[order[i]])] :
     order \in {o \in SeqsUpTo(Names(GroupNames), MaxGroups) :
                  \A i, j \in DOMAIN o : i # j => o[i] # o[j]},
     lists \in [Names(GroupNames) -> Containments]}

AudioFiles ==
  {"a.wav", "b.wav", "c.wav"}

\* a project with its groups, or the sounds module before its first call
InitBlend ==
  /\ kind \in {"W3DProject", "W3DSound"}
  /\ attrs \in IF kind = "W3DSound" THEN {NoAttrs}
               ELSE {W3DProject_init(Proc(NoAttrs, "NOTSET", "start"),
                                     << <<"groups", VList(groups)>> >>,
                                     "argv0").st.attrs :
                       groups \in GroupLists}
  /\ logLevel = "NOTSET"
  /\ cwd = IF kind = "W3DProject" THEN "argv0" ELSE "start"
  /\ res = Result("init", "", PyNone, "ok", PyNone)
  /\ doc = NoDoc
  /\ parsed = NoParse
  /\ audio = NoAudio

\* project.sort_groups()
SortGroups ==
  /\ kind = "W3DProject"
  /\ \E r \in {W3DProject_sort_groups(Proc(attrs, logLevel, cwd))} :
        /\ attrs' = r.st.attrs
        /\ logLevel' = r.st.log
        /\ cwd' = r.st.cwd
        /\ res' = Result("sort_groups", "", PyNone, r.status, PyNone)
  /\ UNCHANGED <<audio, kind, doc, parsed>>

\* generate_blender_audio_from_file(filename), as W3DSound.blend calls it
\* with the filename of the sound
GenerateAudio(filename, first) ==
  /\ kind = "W3DSound"
  /\ audio.calls < MaxCalls
  /\ \E r \in {generate_blender_audio_from_file(audio, filename, first)} :
        /\ audio' = [r.audio EXCEPT !.calls = @ + 1]
        /\ res' = Result("audio", filename, PyNone, "ok", r.ret)
  /\ UNCHANGED <<kind, attrs, logLevel, cwd, doc, parsed>>

NextBlend ==
  \/ SortGroups
  \/ \E filename \in AudioFiles, first \in 1..MaxCalls :
       GenerateAudio(filename, first)

SpecBlend ==
  InitBlend /\ [][NextBlend]_vars

(* ============================== claims ================================ *)

Schema ==
  argument_validators(kind)

Defaults ==
  default_arguments(kind)

Accepts(key, value) ==
  key \in DOMAIN Schema /\ Validate(Schema[key], value)

\* C1: a set(a, v) succeeds exactly when a is in the schema of the kind and
\* v passes a's validator; after a successful set the attribute is stored
\* as v itself and get(a) returns v, uncoerced.
C1_SetThenGet ==
  res.op = "set" =>
    /\ (res.status = "ok") = Accepts(res.key, res.val)
    /\ res.status = "ok" =>
         /\ res.key \in DOMAIN attrs
         /\ attrs[res.key] = res.val
         /\ CaveFeature_getitem(kind, attrs, res.key).status = "ok"
         /\ CaveFeature_getitem(kind, attrs, res.key).ret = res.val

C1_Witness ==
  /\ res.op = "set" /\ res.status = "ok"
  /\ res.key = "duration" /\ res.val = VInt(1)
  /\ kind = "ObjectAction"

\* C2: a rejected set(name, value) leaves the storage exactly as it was,
\* the previously stored value of the same attribute included.
C2_RejectedSetFailsClosed ==
  [][(res'.op = "set" /\ res'.status # "ok") => attrs' = attrs]_vars

C2_Witness ==
  /\ res.op = "set" /\ res.status = "InvalidArgument"
  /\ res.key \in DOMAIN attrs
  /\ attrs[res.key] # res.val

\* C3: in every reachable state of an instance - constructed, written to,
\* or returned by a parse, W3DProject.fromXML with its entity lists and its
\* wall_placements included - every stored attribute name is in the schema
\* of the kind and every stored value passes the validator of its name.
C3_StoredIsValid ==
  /\ \A a \in DOMAIN attrs : Accepts(a, attrs[a])
  /\ parsed.status = "ok" =>
       \A a \in DOMAIN parsed.attrs :
         /\ a \in DOMAIN argument_validators(parsed.kind)
         /\ Validate(argument_validators(parsed.kind)[a], parsed.attrs[a])

\* C4: get(name) returns the stored value when there is one, else the
\* declared default, else fails with KeyError; the read never changes the
\* storage, so a defaulted attribute stays absent.
C4_GetReadsWithoutWriting ==
  [][res'.op = "get" =>
       /\ attrs' = attrs
       /\ IF res'.key \in DOMAIN attrs
          THEN res'.status = "ok" /\ res'.ret = attrs[res'.key]
          ELSE IF res'.key \in DOMAIN Defaults
          THEN res'.status = "ok" /\ res'.ret = Defaults[res'.key]
          ELSE res'.status = "KeyError"]_vars

C4_Witness ==
  /\ res.op = "get" /\ res.status = "ok"
  /\ res.key \notin DOMAIN attrs
  /\ res.key \in DOMAIN Defaults
  /\ attrs # NoAttrs

\* C5: is_default(a) answers "a is absent from the storage and has a
\* declared default"; an attribute with a default that was never set reads
\* as its default; once a has been set, is_default(a) is false from then on,
\* also when the value written equals the default.
C5_IsDefaultMeansAbsent ==
  /\ [](/\ res.op = "is_default" =>
             res.ret = VBool(res.key \notin DOMAIN attrs
                             /\ res.key \in DOMAIN Defaults)
        /\ \A a \in DOMAIN Defaults \ DOMAIN attrs :
             /\ is_default(kind, attrs, a)
             /\ CaveFeature_getitem(kind, attrs, a).ret = Defaults[a]
        /\ (res.op = "set" /\ res.status = "ok") =>
             ~is_default(kind, attrs, res.key))
  /\ [][\A a \in DOMAIN attrs : ~is_default(kind, attrs', a)]_vars

C5_Witness ==
  /\ res.op = "is_default" /\ res.ret = VBool(FALSE)
  /\ res.key \in DOMAIN attrs
  /\ res.key \in DOMAIN Defaults
  /\ PyEq(attrs[res.key], Defaults[res.key])

\* K.fromXML(node) as a caller writes it has just returned or raised
Called(op) ==
  res.op = op /\ res.key = "method"

\* C6: round trip - for a validly constructed instance x that toXML wrote,
\* K.fromXML(x.toXML(parent)) returns an instance on which every attribute
\* explicitly set on x is set to an equal value.
C6_RoundTrip ==
  Called("fromXML") =>
    /\ parsed.status = "ok"
    /\ \A a \in DOMAIN attrs :
         a \in DOMAIN parsed.attrs /\ PyEq(parsed.attrs[a], attrs[a])

\* C7: CaveAction.fromXML on a well-formed node with one of the seven
\* registered tags returns an instance of exactly the matching kind and
\* never fails.
C7_DispatchRegistered ==
  (Called("dispatch") /\ doc.tag \in DOMAIN DispatchTable) =>
    parsed.status = "ok" /\ parsed.kind = DispatchTable[doc.tag]

\* C8: CaveAction.fromXML on a node whose tag is not registered fails with
\* the unrecognized-kind error (BadCaveXML), the error names the offending
\* tag, and no instance is returned.
C8_DispatchUnregistered ==
  (Called("dispatch") /\ doc.tag \notin DOMAIN DispatchTable) =>
    /\ parsed.status = "BadCaveXML"
    /\ parsed.detail = doc.tag
    /\ parsed.kind = ""

OnlyObjectName ==
  kind = "ObjectAction" /\ DOMAIN attrs = {"object_name"}

\* C9: scenario A - an ObjectAction with only object_name set is written as
\* one ObjectChange element with the name attribute and exactly one child,
\* a Transition carrying the default duration and no children; parsing that
\* element back gives an instance whose duration reads 1 and is still
\* defaulted.
C9_ScenarioA ==
  OnlyObjectName =>
    /\ res.op = "toXML" =>
         /\ res.status = "ok"
         /\ res.ret = Elem("ObjectChange", [name |-> attrs["object_name"]],
                           <<Elem("Transition",
                                  [duration |-> Defaults["duration"]],
                                  <<>>, PyNone)>>,
                           PyNone)
    /\ Called("fromXML") =>
         /\ parsed.status = "ok"
         /\ PyEq(CaveFeature_getitem("ObjectAction", parsed.attrs,
                                     "duration").ret, VInt(1))
         /\ is_default("ObjectAction", parsed.attrs, "duration")

\* the Movement / MoveRel children of the Transition element that toXML put
\* under the parent
MovementChildren ==
  SelectSeq(doc.children[1].children[1].children,
            LAMBDA c : c.tag \in {"MoveRel", "Movement"})

WroteObjectChange ==
  res.op = "toXML" /\ kind = "ObjectAction" /\ "object_name" \in DOMAIN attrs

\* C10: scenario B - writing an ObjectAction with a placement set puts under
\* Transition exactly one movement child wrapping the placement's own
\* serialization, named MoveRel when move_relative is true and Movement
\* when it is false; with no placement and move_relative never set there is
\* neither a Movement nor a MoveRel child.
C10_ScenarioB ==
  WroteObjectChange =>
    /\ ( /\ "placement" \in DOMAIN attrs
         /\ attrs["placement"].t = "feature"
         /\ "move_relative" \in DOMAIN attrs ) =>
         MovementChildren =
           <<Placement_toXML(
               attrs["placement"],
               Empty(IF Truthy(attrs["move_relative"])
                     THEN "MoveRel" ELSE "Movement")).parent>>
    /\ ("placement" \notin DOMAIN attrs /\ "move_relative" \notin DOMAIN attrs)
         => MovementChildren = <<>>

C10_Witness ==
  /\ WroteObjectChange /\ res.status = "ok"
  /\ "placement" \in DOMAIN attrs /\ attrs["placement"].t = "feature"
  /\ "move_relative" \in DOMAIN attrs /\ attrs["move_relative"] = VBool(TRUE)
  /\ Len(MovementChildren) = 1
  /\ MovementChildren[1].tag = "MoveRel"
  /\ MovementChildren[1].children # <<>>

\* no Movement or MoveRel element anywhere under the parent
NoMovementWritten ==
  doc.children = <<>> \/ MovementChildren = <<>>

PlacementWithoutRelative ==
  /\ kind = "ObjectAction"
  /\ "placement" \in DOMAIN attrs
  /\ "move_relative" \notin DOMAIN attrs

\* C11: the consistency of placement and move_relative is checked only when
\* the action is written - a set of placement (and a set of move_relative)
\* on an ObjectAction succeeds and stores the value whatever the other
\* attribute is, in either order; an action with placement stored and
\* move_relative never set is refused by toXML, which raises and emits no
\* Movement or MoveRel element.
C11_ConsistencyAtToXML ==
  /\ [][(res'.op = "set" /\ res'.key \in MovementKeys) =>
         /\ res'.status = "ok"
         /\ attrs' = Store(attrs, res'.key, res'.val)]_vars
  /\ []((res.op = "toXML" /\ PlacementWithoutRelative) =>
         res.status # "ok" /\ res.ret = NoDoc /\ NoMovementWritten)

C11_Witness ==
  /\ res.op = "toXML" /\ res.status = "KeyError"
  /\ PlacementWithoutRelative
  /\ "object_name" \in DOMAIN attrs
  /\ doc.children # <<>>
  /\ MovementChildren = <<>>

WroteSound ==
  /\ res.op = "toXML" /\ kind = "W3DSound"
  /\ {"name", "filename"} \subseteq DOMAIN attrs

\* the repetitions the sound reads: the stored value, else the default
Repetitions ==
  IF "repetitions" \in DOMAIN attrs THEN attrs["repetitions"]
  ELSE Defaults["repetitions"]

\* the children of the Repeat elements of the Sound element written
RepeatChildren ==
  IF findall(res.ret, "Repeat") = <<>> THEN <<>>
  ELSE find(res.ret, "Repeat").children

\* C12: scenario C - writing a sound gives one Repeat element with exactly
\* one child, chosen by the sign of repetitions: NoRepeat without text iff
\* repetitions is 0 (also when defaulted), RepeatForever without text iff it
\* is negative, RepeatNum with the decimal string of repetitions as text iff
\* it is positive.
C12_ScenarioC ==
  WroteSound =>
    /\ res.status = "ok"
    /\ Len(findall(res.ret, "Repeat")) = 1
    /\ Len(RepeatChildren) = 1
    /\ (RepeatChildren[1] = Empty("NoRepeat")) = (Halves(Repetitions) = 0)
    /\ (RepeatChildren[1] = Empty("RepeatForever")) = (Halves(Repetitions) < 0)
    /\ (RepeatChildren[1] = Elem("RepeatNum", NoAttrs, <<>>, PyStr(Repetitions)))
         = (Halves(Repetitions) > 0)

C12_Witness ==
  /\ WroteSound /\ res.status = "ok"
  /\ "repetitions" \in DOMAIN attrs /\ attrs["repetitions"] = VInt(-3)
  /\ RepeatChildren = <<Empty("RepeatForever")>>

\* the node handed to ObjectAction.fromXML has a name and a Transition with
\* a Movement or MoveRel child that has no Placement child
BareMovement ==
  /\ kind = "ObjectAction" /\ res.op = "parse"
  /\ "name" \in DOMAIN doc.attrib
  /\ find(doc, "Transition") # NoDoc
  /\ \E i \in DOMAIN find(doc, "Transition").children :
        /\ find(doc, "Transition").children[i].tag \in {"MoveRel", "Movement"}
        /\ find(find(doc, "Transition").children[i], "Placement") = NoDoc

\* C13: scenario D - parsing an ObjectChange node whose Transition holds a
\* Movement or MoveRel element without a nested Placement fails with
\* BadCaveXML (the malformed-document error) and returns no instance.
C13_ScenarioD ==
  (Called("parse") /\ BareMovement) =>
    /\ parsed.status = "BadCaveXML"
    /\ parsed.kind = ""

\* where an attribute shows in the node toXML returned: the element
\* reached along a path of tags, and the XML attribute on it ("" for the
\* element itself)
Place(path, attr) ==
  [path |-> path, attr |-> attr]

OutputPlaces ==
  CASE kind = "ObjectAction" ->
         [duration |-> {Place(<<"Transition">>, "duration")},
          visible |-> {Place(<<"Transition", "Visible">>, "")},
          placement |-> {Place(<<"Transition", "MoveRel">>, ""),
                         Place(<<"Transition", "Movement">>, "")},
          move_relative |-> {Place(<<"Transition", "MoveRel">>, ""),
                             Place(<<"Transition", "Movement">>, "")},
          color |-> {Place(<<"Transition", "Color">>, "")},
          scale |-> {Place(<<"Transition", "Scale">>, "")},
          sound_change |-> {Place(<<"Transition", "Sound">>, "")},
          link_change |-> {Place(<<"Transition", "LinkChange">>, "")}]
    [] kind = "W3DSound" ->
         [autostart |-> {Place(<<>>, "autostart")},
          movement_mode |-> {Place(<<"Mode">>, "")},
          repetitions |-> {Place(<<"Repeat">>, "")},
          frequency_scale |-> {Place(<<"Settings">>, "freq")},
          volume_scale |-> {Place(<<"Settings">>, "volume")},
          pan |-> {Place(<<"Settings">>, "pan")}]
    [] kind = "W3DProject" ->
         [far_clip |-> {Place(<<"Global", "CameraPos">>, "far-clip"),
                        Place(<<"Global", "CaveCameraPos">>, "far-clip")},
          background |-> {Place(<<"Global", "Background">>, "color")},
          allow_rotation |->
            {Place(<<"Global", "WandNavigation">>, "allow-rotation")},
          allow_movement |->
            {Place(<<"Global", "WandNavigation">>, "allow-movement")},
          debug |-> {Place(<<"Global", "Debug">>, "")},
          profile |-> {Place(<<"Global", "Profile">>, "")}]
    [] OTHER -> <<>>

RECURSIVE Descend(_, _)
Descend(node, path) ==
  IF path = <<>> \/ node = NoDoc THEN node
  ELSE Descend(find(node, Head(path)), Tail(path))

\* the node written holds output for the attribute
Carries(key) ==
  \E place \in OutputPlaces[key] :
     /\ Descend(res.ret, place.path) # NoDoc
     /\ place.attr = "" \/ place.attr \in DOMAIN Descend(res.ret, place.path).attrib

\* the optional attributes that are not stored on the instance written
Unset ==
  DOMAIN OutputPlaces \ DOMAIN attrs

\* the attributes toXML reads with self[...] and writes unconditionally
AlwaysWritten ==
  {"duration", "movement_mode", "repetitions", "far_clip", "background",
   "allow_rotation", "allow_movement", "debug", "profile"}

WroteFeature ==
  res.op = "toXML" /\ res.status = "ok"

\* C14 (as stated): toXML emits output for an optional attribute only if
\* the attribute is explicitly set on the instance; an absent or defaulted
\* attribute contributes no element and no XML attribute.
C14_OnlyExplicitlySet ==
  WroteFeature => \A key \in Unset : ~Carries(key)

\* C14 (amended): an optional attribute that is not set contributes no
\* output, except the attributes toXML always writes from self[...] - an
\* ObjectAction's duration, a sound's movement_mode and repetitions and a
\* project's far_clip, background, allow_rotation, allow_movement, debug
\* and profile - which are emitted with their default when not set.
C14_UnsetOutput ==
  WroteFeature => \A key \in Unset : Carries(key) = (key \in AlwaysWritten)

C14_Witness ==
  /\ WroteFeature /\ kind = "W3DSound"
  /\ {"pan", "repetitions"} \subseteq Unset
  /\ "volume_scale" \in DOMAIN attrs
  /\ DOMAIN find(res.ret, "Settings").attrib = {"volume"}
  /\ find(res.ret, "Repeat").children = <<Empty("NoRepeat")>>

\* C15: toXML(parent) on an action or a sound changes the parent only by
\* appending one child, the complete fragment of the instance, and returns
\* that child; the children the parent had stay as they were (it had none
\* here), and a call that raises leaves nothing appended.
C15_AppendsOneChild ==
  (res.op = "toXML" /\ kind # "W3DProject") =>
    IF res.status = "ok"
    THEN res.ret # NoDoc /\ doc = AppendChild(Empty("Parent"), res.ret)
    ELSE res.ret = NoDoc /\ doc = Empty("Parent")

\* the element under the node handed to the parser, along a path of tags
Under(path) ==
  Descend(doc, path)

\* the node lacks one of the tags among its children
Lacks(node, tags) ==
  \E tag \in tags : find(node, tag) = NoDoc

\* the node handed to the parser lacks a structurally required attribute
\* or element
LacksRequired ==
  CASE kind = "ObjectAction" ->
         "name" \notin DOMAIN doc.attrib \/ Lacks(doc, {"Transition"})
    [] kind = "W3DSound" ->
         \/ {"name", "filename"} \ DOMAIN doc.attrib # {}
         \/ Lacks(doc, {"Mode", "Repeat", "Settings"})
         \/ \A marker \in {"NoRepeat", "RepeatForever", "RepeatNum"} :
              Lacks(Under(<<"Repeat">>), {marker})
    [] kind = "W3DProject" ->
         \/ Lacks(doc, {"Global", "PlacementRoot"})
         \/ Lacks(Under(<<"Global">>),
                  {"CameraPos", "CaveCameraPos", "Background", "WandNavigation"})
         \/ Lacks(Under(<<"Global", "CameraPos">>), {"Placement"})
         \/ Lacks(Under(<<"Global", "CaveCameraPos">>), {"Placement"})
         \/ \E i \in DOMAIN Under(<<"PlacementRoot">>).children :
              /\ Under(<<"PlacementRoot">>).children[i].tag = "Placement"
              /\ "name" \notin DOMAIN Under(<<"PlacementRoot">>).children[i].attrib
    [] OTHER -> FALSE

MalformedDocument ==
  {"BadCaveXML", "BadW3DXML"}

\* C16: every fromXML (ObjectAction, W3DSound, W3DProject) applied to a
\* node that lacks a structurally required attribute or element raises the
\* malformed-document error (BadCaveXML, BadW3DXML) and no other kind of
\* error, and returns no instance.
C16_MalformedDocument ==
  (Called("parse") /\ LacksRequired) =>
    /\ parsed.status \in MalformedDocument
    /\ parsed.kind = ""

\* the identities of a list of entities, and the identities the nodes of a
\* list of elements carry
Ids(values) ==
  [i \in 1..Len(values) |-> values[i].id]

Texts(nodes) ==
  [i \in 1..Len(nodes) |-> nodes[i].text.s[1]]

\* the children with the entity's tag in a container of a Story node
Listed(story, l) ==
  IF find(story, l[1]) = NoDoc THEN <<>>
  ELSE findall(find(story, l[1]), l[2])

LevelFor(value) ==
  IF Truthy(value) THEN "DEBUG" ELSE "WARNING"

\* C18: the logging hook of debug is a post-write hook - the level of the
\* logger changes only in a step that commits debug, to DEBUG for a true
\* value and WARNING for a false one; a set of debug that is rejected and
\* a set of any other attribute leave the level as it was.
C18_DebugHookAfterWrite ==
  [][/\ logLevel' # logLevel =>
          "debug" \in DOMAIN attrs' /\ logLevel' = LevelFor(attrs'["debug"])
     /\ (res'.op = "set" /\ res'.key = "debug" /\ res'.status = "ok") =>
          logLevel' = LevelFor(res'.val)
     /\ (res'.op = "set" /\ (res'.key # "debug" \/ res'.status # "ok")) =>
          logLevel' = logLevel]_vars

\* the step ran the debug hook: it set debug, or parsed a document whose
\* Global section holds a Debug node
DebugHookRan ==
  \/ res'.op = "set" /\ res'.key = "debug"
  \/ res'.op = "parse" /\ Descend(doc', <<"Global", "Debug">>) # NoDoc

\* C19: no call changes process-wide state other than through the debug
\* logging hook - constructing or parsing a project, setting attributes
\* and writing leave the working directory of the process as it was, and
\* the logger level changes only where the debug hook ran.
C19_NoProcessState ==
  [][/\ cwd' = cwd
     /\ logLevel' # logLevel => DebugHookRan]_vars

HasChild(tag) ==
  find(Under(<<"Transition">>), tag) # NoDoc

\* the node handed to ObjectAction.fromXML is well formed: a name, a
\* Transition with a readable duration (or none), and a Placement in the
\* movement child that is read
ReadableChange ==
  /\ kind = "ObjectAction" /\ res.op = "parse"
  /\ "name" \in DOMAIN doc.attrib
  /\ Under(<<"Transition">>) # NoDoc
  /\ "duration" \in DOMAIN Under(<<"Transition">>).attrib =>
       /\ PyFloat(Under(<<"Transition">>).attrib["duration"]).ok
       /\ Halves(PyFloat(Under(<<"Transition">>).attrib["duration"]).v) >= 0
  /\ HasChild("MoveRel") => Under(<<"Transition", "MoveRel", "Placement">>) # NoDoc
  /\ (~HasChild("MoveRel") /\ HasChild("Movement")) =>
       Under(<<"Transition", "Movement", "Placement">>) # NoDoc

StoredAs(key, value) ==
  key \in DOMAIN parsed.attrs /\ parsed.attrs[key] = value

\* C20: ObjectAction.fromXML infers move_relative from the children of
\* Transition - stored as true iff there is a MoveRel child, stored as
\* false (set, not defaulted) iff there is no MoveRel but a Movement child,
\* and absent iff there is neither; placement is stored iff one of the two
\* children is there with its Placement child.
C20_MoveRelativeInferred ==
  (Called("parse") /\ ReadableChange) =>
    /\ parsed.status = "ok"
    /\ StoredAs("move_relative", VBool(TRUE)) = HasChild("MoveRel")
    /\ StoredAs("move_relative", VBool(FALSE))
         = (~HasChild("MoveRel") /\ HasChild("Movement"))
    /\ ("move_relative" \notin DOMAIN parsed.attrs)
         = (~HasChild("MoveRel") /\ ~HasChild("Movement"))
    /\ ("placement" \in DOMAIN parsed.attrs)
         = (HasChild("MoveRel") \/ HasChild("Movement"))

\* the fixed mapping of ObjectAction.toXML: attribute, element
ChangeElements ==
  [visible |-> "Visible", color |-> "Color", scale |-> "Scale",
   sound_change |-> "Sound", link_change |-> "LinkChange"]

LinkMarkers ==
  [w \in LinkChanges |->
     CASE w = "Enable" -> "link_on"
       [] w = "Disable" -> "link_off"
       [] w = "Activate" -> "activate"
       [] OTHER -> "activate_if_on"]

\* the element the claim expects for a set attribute
ExpectedChange(key) ==
  CASE key = "visible" ->
         Elem("Visible", NoAttrs, <<>>, bool2text(attrs[key]))
    [] key = "color" ->
         Elem("Color", NoAttrs, <<>>,
              VStr(PyStr(attrs[key].e[1]).s \o <<",">>
                   \o PyStr(attrs[key].e[2]).s \o <<",">>
                   \o PyStr(attrs[key].e[3]).s))
    [] key = "scale" -> Elem("Scale", NoAttrs, <<>>, PyStr(attrs[key]))
    [] key = "sound_change" ->
         Elem("Sound", [action |-> attrs[key]], <<>>, PyNone)
    [] OTHER ->
         Elem("LinkChange", NoAttrs,
              <<Empty(LinkMarkers[attrs[key].s[1]])>>, PyNone)

\* an ObjectAction that toXML can write as far as its name and movement
\* are concerned
WritableChange ==
  /\ res.op = "toXML" /\ kind = "ObjectAction"
  /\ "object_name" \in DOMAIN attrs
  /\ "placement" \in DOMAIN attrs =>
       attrs["placement"].t = "feature" /\ "move_relative" \in DOMAIN attrs

\* C21: ObjectAction.toXML puts under the one Transition element exactly
\* one child for each of visible, color, scale, sound_change and
\* link_change that is set and none for one that is not: Visible, Color
\* with the comma-joined triple, Scale, Sound with the value in its action
\* attribute, and LinkChange holding exactly one empty marker (link_on,
\* link_off, activate, activate_if_on).
C21_ChangeChildren ==
  WritableChange =>
    /\ res.status = "ok"
    /\ Len(findall(res.ret, "Transition")) = 1
    /\ \A key \in DOMAIN ChangeElements :
         findall(Descend(res.ret, <<"Transition">>), ChangeElements[key])
           = IF key \in DOMAIN attrs THEN <<ExpectedChange(key)>> ELSE <<>>

\* the groups of the project, as stored
StoredGroups ==
  attrs["groups"].e

\* the group at position i lists the group at position j
Lists(groups, i, j) ==
  groups[j].id \in groups[i].groups

\* ... lists it directly or through at most n groups
RECURSIVE Reaches(_, _, _, _)
Reaches(groups, i, j, n) ==
  \/ Lists(groups, i, j)
  \/ n > 1 /\ \E k \in DOMAIN groups :
                Lists(groups, i, k) /\ Reaches(groups, k, j, n - 1)

Acyclic(groups) ==
  \A i \in DOMAIN groups : ~Reaches(groups, i, i, Len(groups))

\* C22: after sort_groups on a project whose groups' direct containment is
\* acyclic, no group lists a later group - for all positions i < j the
\* name of the group at j is not in the "groups" of the group at i -
\* whatever the order of the groups was, chains of three included.
C22_SortedGroups ==
  (res.op = "sort_groups" /\ Acyclic(StoredGroups)) =>
    \A i, j \in DOMAIN StoredGroups : i < j => ~Lists(StoredGroups, i, j)


\* a step that is one call of generate_blender_audio_from_file
AudioCall ==
  audio'.calls = audio.calls + 1

\* C23: every call of generate_blender_audio_from_file returns; after it the
\* file it named has been opened exactly once and no other file was opened
\* by it, so the file is opened on the first call that names it (the first
\* call of all included) and never again; a call naming a file already
\* opened returns the handle stored for it and leaves the host's sounds
\* alone, and the handle stored for a file never changes
C23_OpenedOnce ==
  [][AudioCall =>
       /\ res'.op = "audio" /\ res'.status = "ok"
       /\ audio'.cache.exists
       /\ Count(audio'.opened, res'.key) = 1
       /\ \A f \in AudioFiles \ {res'.key} :
            Count(audio'.opened, f) = Count(audio.opened, f)
       /\ res'.ret = audio'.cache.map[res'.key]
       /\ \A f \in DOMAIN audio.cache.map :
            audio'.cache.map[f] = audio.cache.map[f]
       /\ Count(audio.opened, res'.key) = 1 =>
            /\ res'.ret = audio.cache.map[res'.key]
            /\ audio'.sounds = audio.sounds
            /\ audio'.opened = audio.opened]_vars

\* every call so far named the same file, and the host holds one sound
C23_Witness ==
  /\ res.op = "audio"
  /\ audio.calls = MaxCalls
  /\ Len(audio.sounds) = 1
  /\ audio.opened[res.key] = 1
  /\ res.ret = audio.sounds[1]

\* the project was written by toXML and the document read by fromXML
ProjectReadBack ==
  res.op = "fromXML" /\ kind = "W3DProject"

\* C24: when a project whose camera_placement and desktop_camera_placement
\* differ is written by toXML and the document is read by fromXML, the
\* project read has the camera_placement and the desktop_camera_placement
\* of the project written
C24_CameraRoundTrip ==
  (ProjectReadBack
     /\ attrs["camera_placement"] # attrs["desktop_camera_placement"]) =>
    /\ parsed.status = "ok"
    /\ parsed.attrs["camera_placement"] = attrs["camera_placement"]
    /\ parsed.attrs["desktop_camera_placement"]
         = attrs["desktop_camera_placement"]

\* how often x occurs in the list
Occurrences(list, x) ==
  Cardinality({i \in DOMAIN list : list[i] = x})

\* the two lists hold the same groups, each as often
IsPermutation(old, new) ==
  /\ Len(old) = Len(new)
  /\ \A i \in DOMAIN old : Occurrences(new, old[i]) = Occurrences(old, old[i])

\* C25: sort_groups returns for every stored list of groups, lists whose
\* containment is cyclic or self-referential included, and only reorders:
\* the list stored afterwards is a permutation of the list stored before,
\* and no other attribute of the project, nor the logger level or the
\* working directory, changes
C25_OnlyReorders ==
  [][res'.op = "sort_groups" =>
       /\ res'.status = "ok"
       /\ DOMAIN attrs' = DOMAIN attrs
       /\ attrs'["groups"].t = "list"
       /\ IsPermutation(attrs["groups"].e, attrs'["groups"].e)
       /\ \A key \in DOMAIN attrs \ {"groups"} : attrs'[key] = attrs[key]
       /\ UNCHANGED <<kind, logLevel, cwd, doc, parsed, audio>>]_vars

\* sort_groups returned on a full list in which a group lists itself and
\* the order stored differs from the order of the names
C25_Witness ==
  /\ res.op = "sort_groups" /\ res.status = "ok"
  /\ Len(StoredGroups) = MaxGroups
  /\ ~Acyclic(StoredGroups)
  /\ \E i \in DOMAIN StoredGroups : Lists(StoredGroups, i, i)
  /\ \E i \in DOMAIN StoredGroups : StoredGroups[i].id # GroupNames[i]

\* the attributes of kind K with a declared default and no validator
Unvalidated(K) ==
  DOMAIN default_arguments(K) \ DOMAIN argument_validators(K)

\* C26: whatever the kind of the instance, every attribute with a declared
\* default is an attribute of the schema of its kind
C26_DefaultsInSchema ==
  Unvalidated(kind) = {}

====
